---- MODULE Spec2Model ----
(***************************************************************************)
(* Model of the Maestro wearable firmware core: the audio ring buffer and  *)
(* frame source (audio_capture.cpp), the voice-activity detector           *)
(* (vad_detector.cpp) and the turn-taking logic of the main loop           *)
(* (main.cpp), with the transport edge detection of ble_service.cpp.       *)
(*                                                                         *)
(* Units.  Times are milliseconds, as millis() returns them.  Energies,    *)
(* thresholds and the noise floor are floats in [0,1] in the source; here  *)
(* they are integers in millionths (0.02f is 20000).  Zero-crossing rates  *)
(* are integers in thousandths.  Samples are modelled by the position they *)
(* have in the pushed stream (1, 2, 3, ...), 0 being the memset value, so  *)
(* that order, loss and duplication of samples are observable.             *)
(***************************************************************************)
EXTENDS Integers, Sequences, FiniteSets, TLC

----------------------------------------------------------------------------
(* Sizes.  The firmware uses AUDIO_BUFFER_SIZE = 160000, AUDIO_FRAME_SAMPLES *)
(* = 480 and DMA_BUF_LEN = 1024 (audio_capture.h:38,41, audio_capture.cpp:20);*)
(* the model keeps their relations (frame < DMA block < capacity, capacity  *)
(* not a multiple of the frame length) at a size TLC can enumerate.         *)
AUDIO_BUFFER_SIZE == 8
AUDIO_FRAME_SAMPLES == 3
DMA_BUF_LEN == 4

(* Number of samples the hardware delivers in a run of the ring model.     *)
MaxPushed == 14

Min(a, b) == IF a < b THEN a ELSE b

VARIABLES
    \* audio_capture.cpp
    audio_buffer, write_index, read_index, is_running, current_level,
    \* the caller's AudioFrame and the value audio_get_frame returned
    frame, got_frame,
    \* history of the ring: samples pushed, samples handed out, overflow seen
    pushed, out, overflowed,
    \* millis()
    now_ms,
    \* vad_detector.cpp
    energy_threshold, adaptive_enabled, current_state, state_start_time,
    last_speech_time, speech_start_time, noise_floor, pending_segment,
    segment_ready, segment_energy_sum, segment_frame_count,
    \* history of the detector: closes that found a segment still waiting
    \* in the slot and wrote over it
    overwritten,
    \* the frame handed to vad_process with its features, the VADResult it
    \* returned, the caller's SpeechSegment and the value vad_get_segment returned
    vad_frame, vad_result, segment, got_segment,
    \* main.cpp
    session_active, session_start_time, session_event_count, last_was_speaking,
    last_speech_end_time, waiting_for_response, child_speech_time, last_was_child,
    \* ble_service.cpp
    device_connected, old_device_connected,
    \* the events handed to ble_send_event and the feedback_trigger calls, in
    \* order, and the number of sessions started
    events, feedbacks, session_no,
    \* the arguments of the last call of the pitch detector, what it returned
    \* and the return statement it left by
    pitch_in, pitch_result, pitch_path,
    \* the operation performed by the last step
    op

ringVars == <<audio_buffer, write_index, read_index, is_running, current_level,
              frame, got_frame, pushed, out, overflowed>>

vadVars == <<energy_threshold, adaptive_enabled, current_state, state_start_time,
             last_speech_time, speech_start_time, noise_floor, pending_segment,
             segment_ready, segment_energy_sum, segment_frame_count, overwritten>>

vadCallerVars == <<vad_frame, vad_result, segment, got_segment>>

mainVars == <<session_active, session_start_time, session_event_count,
              last_was_speaking, last_speech_end_time, waiting_for_response,
              child_speech_time, last_was_child>>

bleVars == <<device_connected, old_device_connected>>

logVars == <<events, feedbacks, session_no>>

pitchVars == <<pitch_in, pitch_result, pitch_path>>

vars == <<ringVars, now_ms, vadVars, vadCallerVars, mainVars, bleVars, logVars,
          pitchVars, op>>

----------------------------------------------------------------------------
(* audio_capture.cpp                                                         *)

Levels == {0, 300000}

audio_frames_available_of(wi, ri) ==
    IF wi >= ri THEN wi - ri ELSE AUDIO_BUFFER_SIZE - ri + wi

audio_frames_available == audio_frames_available_of(write_index, read_index)

(* One iteration of the copy loop of audio_process, without the overflow   *)
(* handling: the write cursor may run over the read cursor.                *)
write_sample_no_discard(b, s) ==
    [buf |-> [b.buf EXCEPT ![b.wi] = s],
     wi  |-> (b.wi + 1) % AUDIO_BUFFER_SIZE,
     ri  |-> b.ri]

(* The copy loop advancing the write cursor without wrapping it.           *)
write_sample_no_wrap(b, s) ==
    LET wi1 == b.wi + 1
    IN  [buf |-> [b.buf EXCEPT ![b.wi % AUDIO_BUFFER_SIZE] = s],
         wi  |-> wi1,
         ri  |-> IF wi1 = b.ri THEN (b.ri + 1) % AUDIO_BUFFER_SIZE ELSE b.ri]

(* One iteration of the copy loop of audio_process.                        *)
write_sample(b, s) ==
    LET wi1 == (b.wi + 1) % AUDIO_BUFFER_SIZE
    IN  [buf |-> [b.buf EXCEPT ![b.wi] = s],
         wi  |-> wi1,
         ri  |-> IF wi1 = b.ri THEN (b.ri + 1) % AUDIO_BUFFER_SIZE ELSE b.ri]

RECURSIVE copy_to_circular(_, _)
copy_to_circular(b, samples) ==
    IF samples = <<>> THEN b
    ELSE copy_to_circular(write_sample(b, Head(samples)), Tail(samples))

(* audio_get_frame advancing the read cursor one sample short.             *)
audio_get_frame_short_advance(buf, wi, ri, fr, now) ==
    IF audio_frames_available_of(wi, ri) < AUDIO_FRAME_SAMPLES
    THEN [ret |-> FALSE, frame |-> [fr EXCEPT !.valid = FALSE], ri |-> ri]
    ELSE [ret |-> TRUE,
          frame |-> [samples |-> [i \in 1..AUDIO_FRAME_SAMPLES |->
                                    buf[(ri + i - 1) % AUDIO_BUFFER_SIZE]],
                     timestamp_ms |-> now, valid |-> TRUE],
          ri |-> (ri + AUDIO_FRAME_SAMPLES - 1) % AUDIO_BUFFER_SIZE]

(* audio_get_frame handing out whatever is buffered, a full frame or not.  *)
audio_get_frame_partial(buf, wi, ri, fr, now) ==
    IF audio_frames_available_of(wi, ri) = 0
    THEN [ret |-> FALSE, frame |-> [fr EXCEPT !.valid = FALSE], ri |-> ri]
    ELSE [ret |-> TRUE,
          frame |-> [samples |-> [i \in 1..AUDIO_FRAME_SAMPLES |->
                                    buf[(ri + i - 1) % AUDIO_BUFFER_SIZE]],
                     timestamp_ms |-> now, valid |-> TRUE],
          ri |-> (ri + Min(AUDIO_FRAME_SAMPLES, audio_frames_available_of(wi, ri)))
                     % AUDIO_BUFFER_SIZE]

(* audio_get_frame that copies the frame but leaves the read cursor.       *)
audio_get_frame_no_advance(buf, wi, ri, fr, now) ==
    IF audio_frames_available_of(wi, ri) < AUDIO_FRAME_SAMPLES
    THEN [ret |-> FALSE, frame |-> [fr EXCEPT !.valid = FALSE], ri |-> ri]
    ELSE [ret |-> TRUE,
          frame |-> [samples |-> [i \in 1..AUDIO_FRAME_SAMPLES |->
                                    buf[(ri + i - 1) % AUDIO_BUFFER_SIZE]],
                     timestamp_ms |-> now, valid |-> TRUE],
          ri |-> ri]

(* audio_get_frame with a non-null frame: the value returned, the frame    *)
(* written through the pointer and the read cursor afterwards.             *)
audio_get_frame_fn(buf, wi, ri, fr, now) ==
    IF audio_frames_available_of(wi, ri) < AUDIO_FRAME_SAMPLES
    THEN [ret |-> FALSE, frame |-> [fr EXCEPT !.valid = FALSE], ri |-> ri]
    ELSE [ret |-> TRUE,
          frame |-> [samples |-> [i \in 1..AUDIO_FRAME_SAMPLES |->
                                    buf[(ri + i - 1) % AUDIO_BUFFER_SIZE]],
                     timestamp_ms |-> now, valid |-> TRUE],
          ri |-> (ri + AUDIO_FRAME_SAMPLES) % AUDIO_BUFFER_SIZE]

(* pitch_detector.h: the PitchResult every failure returns, and the record *)
(* of a call before any call was made.                                     *)
NoPitch == [valid |-> FALSE, pitch_hz |-> 0, confidence |-> 0, speaker |-> "Unknown"]

NoPitchCall == [fn |-> "none"]

\* the pitch detector not yet called
PitchIdle ==
    /\ pitch_in = NoPitchCall
    /\ pitch_result = NoPitch
    /\ pitch_path = "none"

(* main.cpp and ble_service.cpp before any session and any client.         *)
MainIdle ==
    /\ session_active = FALSE
    /\ session_start_time = 0
    /\ session_event_count = 0
    /\ last_was_speaking = FALSE
    /\ last_speech_end_time = 0
    /\ waiting_for_response = FALSE
    /\ child_speech_time = 0
    /\ last_was_child = FALSE
    /\ device_connected = FALSE
    /\ old_device_connected = FALSE
    /\ events = <<>>
    /\ feedbacks = <<>>
    /\ session_no = 0

(* The state after audio_init() succeeded and audio_start() ran.           *)
RingInit ==
    /\ audio_buffer = [i \in 0..(AUDIO_BUFFER_SIZE - 1) |-> 0]
    /\ write_index = 0
    /\ read_index = 0
    /\ is_running = TRUE
    /\ current_level = 0
    /\ frame = [samples |-> [i \in 1..AUDIO_FRAME_SAMPLES |-> 0],
                timestamp_ms |-> 0, valid |-> FALSE]
    /\ got_frame = FALSE
    /\ pushed = 0
    /\ out = <<>>
    /\ overflowed = FALSE

(* audio_process() when i2s_read delivers k samples with RMS level lvl.    *)
audio_process_read(k, lvl) ==
    /\ is_running
    /\ pushed + k <= MaxPushed
    /\ \E b \in {copy_to_circular(
                    [buf |-> audio_buffer, wi |-> write_index, ri |-> read_index],
                    [i \in 1..k |-> pushed + i])} :
          /\ audio_buffer' = b.buf
          /\ write_index' = b.wi
          /\ read_index' = b.ri
    /\ current_level' = lvl
    /\ pushed' = pushed + k
    /\ overflowed' = (overflowed \/
                      audio_frames_available + k > AUDIO_BUFFER_SIZE - 1)
    /\ op' = "audio_process"
    /\ UNCHANGED <<is_running, frame, got_frame, out>>
    /\ UNCHANGED <<now_ms, vadVars, vadCallerVars, mainVars, bleVars, logVars,
                   pitchVars>>

(* audio_process() that zeroes the cached level when it has nothing to     *)
(* copy.                                                                   *)
audio_process_skip_clears_level ==
    /\ op' = "audio_process_skip"
    /\ current_level' = 0
    /\ UNCHANGED <<audio_buffer, write_index, read_index, is_running,
                   frame, got_frame, pushed, out, overflowed>>
    /\ UNCHANGED <<now_ms, vadVars, vadCallerVars, mainVars, bleVars, logVars,
                   pitchVars>>

(* audio_process() when capture is stopped, or i2s_read fails or returns   *)
(* zero bytes: the early returns of lines 199-201 and 211-213.             *)
audio_process_skip ==
    /\ op' = "audio_process_skip"
    /\ UNCHANGED ringVars
    /\ UNCHANGED <<now_ms, vadVars, vadCallerVars, mainVars, bleVars, logVars,
                   pitchVars>>

audio_get_frame ==
    \E r \in {audio_get_frame_fn(audio_buffer, write_index, read_index, frame,
                                  now_ms)} :
        /\ got_frame' = r.ret
        /\ frame' = r.frame
        /\ read_index' = r.ri
        /\ out' = IF r.ret THEN out \o r.frame.samples ELSE out
        /\ op' = "audio_get_frame"
        /\ UNCHANGED <<audio_buffer, write_index, is_running, current_level,
                       pushed, overflowed>>
        /\ UNCHANGED <<now_ms, vadVars, vadCallerVars, mainVars, bleVars, logVars,
                       pitchVars>>

audio_start ==
    /\ is_running' = TRUE
    /\ op' = "audio_start"
    /\ UNCHANGED <<audio_buffer, write_index, read_index, current_level,
                   frame, got_frame, pushed, out, overflowed>>
    /\ UNCHANGED <<now_ms, vadVars, vadCallerVars, mainVars, bleVars, logVars,
                   pitchVars>>

audio_stop ==
    /\ is_running' = FALSE
    /\ op' = "audio_stop"
    /\ UNCHANGED <<audio_buffer, write_index, read_index, current_level,
                   frame, got_frame, pushed, out, overflowed>>
    /\ UNCHANGED <<now_ms, vadVars, vadCallerVars, mainVars, bleVars, logVars,
                   pitchVars>>

----------------------------------------------------------------------------
(* vad_detector.h / vad_detector.cpp                                         *)

VAD_DEFAULT_THRESHOLD == 20000
VAD_MIN_SPEECH_MS == 100
VAD_HANGOVER_MS == 200

NOISE_FLOOR_INIT == 10000
NOISE_FLOOR_MIN == 1000
NOISE_FLOOR_MAX == 100000

(* now - then on uint32_t.  TLC's integers are 32 bits wide and signed, so  *)
(* 2^32 itself cannot be written: a difference that wraps around is placed *)
(* 2^31 - 1 above its signed value, which keeps it above every timestamp,  *)
(* duration and threshold of the model, as the wrapped uint32_t value is.  *)
UINT32_WRAP == 2147483647

U32Sub(a, b) == IF a >= b THEN a - b ELSE (a - b) + UINT32_WRAP

ZeroSegment == [start_ms |-> 0, end_ms |-> 0, duration_ms |-> 0, avg_energy |-> 0]

(* The file-scope state of vad_detector.cpp as one record.                 *)
VadState ==
    [energy_threshold |-> energy_threshold, adaptive_enabled |-> adaptive_enabled,
     current_state |-> current_state, state_start_time |-> state_start_time,
     last_speech_time |-> last_speech_time, speech_start_time |-> speech_start_time,
     noise_floor |-> noise_floor, pending_segment |-> pending_segment,
     segment_ready |-> segment_ready, segment_energy_sum |-> segment_energy_sum,
     segment_frame_count |-> segment_frame_count, overwritten |-> overwritten]

SetVadState(v) ==
    /\ energy_threshold' = v.energy_threshold
    /\ adaptive_enabled' = v.adaptive_enabled
    /\ current_state' = v.current_state
    /\ state_start_time' = v.state_start_time
    /\ last_speech_time' = v.last_speech_time
    /\ speech_start_time' = v.speech_start_time
    /\ noise_floor' = v.noise_floor
    /\ pending_segment' = v.pending_segment
    /\ segment_ready' = v.segment_ready
    /\ segment_energy_sum' = v.segment_energy_sum
    /\ segment_frame_count' = v.segment_frame_count
    /\ overwritten' = v.overwritten

(* The floor following every frame, whatever the state.                    *)
update_noise_floor_any_state(v, energy) ==
    LET nf  == (995 * v.noise_floor + 5 * energy) \div 1000
        nf1 == IF nf < NOISE_FLOOR_MIN THEN NOISE_FLOOR_MIN ELSE nf
        nf2 == IF nf1 > NOISE_FLOOR_MAX THEN NOISE_FLOOR_MAX ELSE nf1
    IN  [v EXCEPT !.noise_floor = nf2]

update_noise_floor(v, energy) ==
    IF v.current_state = "Silence"
    THEN LET nf  == (995 * v.noise_floor + 5 * energy) \div 1000
             nf1 == IF nf < NOISE_FLOOR_MIN THEN NOISE_FLOOR_MIN ELSE nf
             nf2 == IF nf1 > NOISE_FLOOR_MAX THEN NOISE_FLOOR_MAX ELSE nf1
         IN  [v EXCEPT !.noise_floor = nf2]
    ELSE v

get_effective_threshold(v) ==
    IF v.adaptive_enabled THEN v.noise_floor * 3 ELSE v.energy_threshold

(* The state exit of transition_to that keeps a segment waiting in the     *)
(* slot instead of overwriting it.                                         *)
close_segment_keep_first(v, now) ==
    LET duration == U32Sub(now, v.pending_segment.start_ms)
        avg      == IF v.segment_frame_count > 0
                    THEN v.segment_energy_sum \div v.segment_frame_count
                    ELSE 0
    IN  IF v.segment_ready
        THEN [v EXCEPT !.last_speech_time = now]
        ELSE [v EXCEPT !.pending_segment =
                           [start_ms |-> v.pending_segment.start_ms, end_ms |-> now,
                            duration_ms |-> duration, avg_energy |-> avg],
                       !.segment_ready = duration >= VAD_MIN_SPEECH_MS,
                       !.last_speech_time = now]

(* Handle state exit of transition_to, lines 104-121.                      *)
(* The state exit restarting the silence only after a segment long enough  *)
(* to be reported.                                                         *)
close_segment_published_only(v, now) ==
    LET duration == U32Sub(now, v.pending_segment.start_ms)
        avg      == IF v.segment_frame_count > 0
                    THEN v.segment_energy_sum \div v.segment_frame_count
                    ELSE 0
    IN  [v EXCEPT !.pending_segment =
                       [start_ms |-> v.pending_segment.start_ms, end_ms |-> now,
                        duration_ms |-> duration, avg_energy |-> avg],
                  !.segment_ready =
                       IF duration >= VAD_MIN_SPEECH_MS THEN TRUE ELSE v.segment_ready,
                  !.overwritten = IF v.segment_ready THEN @ + 1 ELSE @,
                  !.last_speech_time =
                       IF duration >= VAD_MIN_SPEECH_MS THEN now ELSE @]

close_segment(v, now) ==
    LET duration == U32Sub(now, v.pending_segment.start_ms)
        avg      == IF v.segment_frame_count > 0
                    THEN v.segment_energy_sum \div v.segment_frame_count
                    ELSE 0
    IN  [v EXCEPT !.pending_segment =
                       [start_ms |-> v.pending_segment.start_ms, end_ms |-> now,
                        duration_ms |-> duration, avg_energy |-> avg],
                  !.segment_ready =
                       IF duration >= VAD_MIN_SPEECH_MS THEN TRUE ELSE v.segment_ready,
                  !.overwritten = IF v.segment_ready THEN @ + 1 ELSE @,
                  !.last_speech_time = now]

(* The state enter that keeps the start of the segment when speech resumes *)
(* within the hangover.                                                    *)
open_segment_keep_start(v, now) ==
    [v EXCEPT !.pending_segment.start_ms =
                   IF v.current_state = "Hangover" THEN @ ELSE now,
              !.segment_energy_sum = 0,
              !.segment_frame_count = 0,
              !.speech_start_time = now]

(* Handle state enter of transition_to, lines 124-129.                     *)
open_segment(v, now) ==
    [v EXCEPT !.pending_segment.start_ms = now,
              !.segment_energy_sum = 0,
              !.segment_frame_count = 0,
              !.speech_start_time = now]

transition_to(v, new_state, now) ==
    IF v.current_state = new_state THEN v
    ELSE LET v1 == IF v.current_state = "Speech" THEN close_segment(v, now) ELSE v
             v2 == IF new_state = "Speech" THEN open_segment(v1, now) ELSE v1
         IN  [v2 EXCEPT !.current_state = new_state, !.state_start_time = now]

(* Lines 197-206: the per-frame speech decision.                           *)
(* The decision with energies on the threshold counted as speech.          *)
frame_is_speech_at_threshold(energy, zcr, threshold) ==
    IF energy >= threshold /\ (zcr < 50 \/ zcr > 500)
    THEN 2 * energy >= 3 * threshold
    ELSE energy >= threshold

frame_is_speech(energy, zcr, threshold) ==
    IF energy > threshold /\ (zcr < 50 \/ zcr > 500)
    THEN 2 * energy > 3 * threshold
    ELSE energy > threshold

(* The switch with Speech falling straight back to Silence.                *)
state_machine_skip_hangover(v, speech, energy, now) ==
    CASE v.current_state = "Silence" ->
            IF speech THEN transition_to(v, "Speech", now) ELSE v
      [] v.current_state = "Speech" ->
            LET a == [v EXCEPT !.segment_energy_sum = @ + energy,
                               !.segment_frame_count = @ + 1]
            IN  IF ~speech THEN transition_to(a, "Silence", now) ELSE a
      [] v.current_state = "Hangover" ->
            IF speech THEN transition_to(v, "Speech", now)
            ELSE IF U32Sub(now, v.state_start_time) > VAD_HANGOVER_MS
                 THEN transition_to(v, "Silence", now)
                 ELSE v

(* The switch of lines 209-236.                                            *)
state_machine(v, speech, energy, now) ==
    CASE v.current_state = "Silence" ->
            IF speech THEN transition_to(v, "Speech", now) ELSE v
      [] v.current_state = "Speech" ->
            LET a == [v EXCEPT !.segment_energy_sum = @ + energy,
                               !.segment_frame_count = @ + 1]
            IN  IF ~speech THEN transition_to(a, "Hangover", now) ELSE a
      [] v.current_state = "Hangover" ->
            IF speech THEN transition_to(v, "Speech", now)
            ELSE IF U32Sub(now, v.state_start_time) > VAD_HANGOVER_MS
                 THEN transition_to(v, "Silence", now)
                 ELSE v

IsSpeaking(st) == st \in {"Speech", "Hangover"}

(* vad_process that runs a frame marked invalid through the detector as a  *)
(* frame of silence.                                                       *)
vad_process_fn_counts_invalid(v, f) ==
    LET now == f.timestamp_ms
        e   == IF f.valid THEN f.energy ELSE 0
        v1  == IF v.adaptive_enabled THEN update_noise_floor(v, e) ELSE v
        thr == get_effective_threshold(v1)
        v2  == state_machine(v1, frame_is_speech(e, f.zcr, thr), e, now)
        sp  == IsSpeaking(v2.current_state)
    IN  [v |-> v2,
         result |-> [is_speech |-> sp, energy |-> e, threshold |-> thr,
                     state |-> v2.current_state,
                     speech_start |-> IF sp THEN v2.speech_start_time ELSE 0,
                     speech_duration_ms |->
                         IF sp THEN U32Sub(now, v2.speech_start_time) ELSE 0]]

(* vad_process on a non-null frame f = [timestamp_ms, valid, energy, zcr], *)
(* energy and zcr being what calculate_energy and calculate_zcr compute    *)
(* from the frame's samples: the state afterwards and the VADResult.       *)
vad_process_fn(v, f) ==
    IF ~f.valid
    THEN [v |-> v,
          result |-> [is_speech |-> FALSE, energy |-> 0,
                      threshold |-> get_effective_threshold(v),
                      state |-> v.current_state,
                      speech_start |-> 0, speech_duration_ms |-> 0]]
    ELSE LET now == f.timestamp_ms
             v1  == IF v.adaptive_enabled THEN update_noise_floor(v, f.energy) ELSE v
             thr == get_effective_threshold(v1)
             v2  == state_machine(v1, frame_is_speech(f.energy, f.zcr, thr),
                                  f.energy, now)
             sp  == IsSpeaking(v2.current_state)
         IN  [v |-> v2,
              result |-> [is_speech |-> sp, energy |-> f.energy, threshold |-> thr,
                          state |-> v2.current_state,
                          speech_start |-> IF sp THEN v2.speech_start_time ELSE 0,
                          speech_duration_ms |->
                              IF sp THEN U32Sub(now, v2.speech_start_time) ELSE 0]]

(* vad_get_segment that leaves the segment in the slot marked ready.       *)
vad_get_segment_fn_keep_ready(v, seg) ==
    IF ~v.segment_ready
    THEN [v |-> v, ret |-> FALSE, segment |-> seg]
    ELSE [v |-> v, ret |-> TRUE, segment |-> v.pending_segment]

(* vad_get_segment on a non-null pointer whose target holds seg.           *)
vad_get_segment_fn(v, seg) ==
    IF ~v.segment_ready
    THEN [v |-> v, ret |-> FALSE, segment |-> seg]
    ELSE [v |-> [v EXCEPT !.segment_ready = FALSE], ret |-> TRUE,
          segment |-> v.pending_segment]

vad_reset_fn(v, now) ==
    [v EXCEPT !.current_state = "Silence",
              !.state_start_time = now,
              !.last_speech_time = 0,
              !.speech_start_time = 0,
              !.segment_ready = FALSE,
              !.segment_energy_sum = 0,
              !.segment_frame_count = 0]

vad_silence_duration_fn(v, now) ==
    IF IsSpeaking(v.current_state) THEN 0
    ELSE IF v.last_speech_time = 0 THEN 0
    ELSE U32Sub(now, v.last_speech_time)

(* The state vad_init() leaves, called at time `now`.                      *)
VadInitState(now, adaptive) ==
    [energy_threshold |-> VAD_DEFAULT_THRESHOLD, adaptive_enabled |-> adaptive,
     current_state |-> "Silence", state_start_time |-> now,
     last_speech_time |-> 0, speech_start_time |-> 0,
     noise_floor |-> NOISE_FLOOR_INIT, pending_segment |-> ZeroSegment,
     segment_ready |-> FALSE, segment_energy_sum |-> 0, segment_frame_count |-> 0,
     overwritten |-> 0]

NoResult == [is_speech |-> FALSE, energy |-> 0, threshold |-> 0, state |-> "Silence",
             speech_start |-> 0, speech_duration_ms |-> 0]

NoFrame == [timestamp_ms |-> 0, valid |-> FALSE, energy |-> 0, zcr |-> 0]

(* ---- the detector driven directly through its public functions -------- *)

(* Time the frames of the detector model span, and the steps between two   *)
(* frames: sums of them land below, on and just above the 100 ms and       *)
(* 200 ms limits (50, 100, 101; 150, 200, 201).  Frame energies: silence,  *)
(* a level between the fixed threshold and 1.5 times it, loud speech.      *)
(* Zero-crossing rates: below the plausible band, inside it.               *)
MaxTime == 320
FrameSteps == {50, 100, 101}
Energies == {0, 25000, 500000}
Zcrs == {20, 200}

VadInit ==
    /\ RingInit
    /\ MainIdle
    /\ PitchIdle
    /\ now_ms = 0
    /\ \E a \in BOOLEAN :
          /\ energy_threshold = VAD_DEFAULT_THRESHOLD
          /\ adaptive_enabled = a
          /\ current_state = "Silence"
          /\ state_start_time = 0
          /\ last_speech_time = 0
          /\ speech_start_time = 0
          /\ noise_floor = NOISE_FLOOR_INIT
          /\ pending_segment = ZeroSegment
          /\ segment_ready = FALSE
          /\ segment_energy_sum = 0
          /\ segment_frame_count = 0
    /\ overwritten = 0
    /\ vad_frame = NoFrame
    /\ vad_result = NoResult
    /\ segment = ZeroSegment
    /\ got_segment = FALSE
    /\ op = "init"

(* vad_process(&f) on the frame captured dt ms after the previous one.     *)
process_frame(dt, valid, energy, zcr) ==
    /\ \E f \in {[timestamp_ms |-> now_ms + dt, valid |-> valid,
                   energy |-> energy, zcr |-> zcr]} :
       \E r \in {vad_process_fn(VadState, f)} :
          /\ SetVadState(r.v)
          /\ vad_frame' = f
          /\ vad_result' = r.result
    /\ now_ms' = now_ms + dt
    /\ op' = "vad_process"
    /\ UNCHANGED <<segment, got_segment>>
    /\ UNCHANGED <<ringVars, mainVars, bleVars, logVars, pitchVars>>

vad_process(dt, valid, energy, zcr) ==
    /\ now_ms + dt <= MaxTime
    /\ process_frame(dt, valid, energy, zcr)

vad_get_segment ==
    /\ \E r \in {vad_get_segment_fn(VadState, segment)} :
          /\ SetVadState(r.v)
          /\ segment' = r.segment
          /\ got_segment' = r.ret
    /\ op' = "vad_get_segment"
    /\ UNCHANGED <<now_ms, vad_frame, vad_result>>
    /\ UNCHANGED <<ringVars, mainVars, bleVars, logVars, pitchVars>>

vad_reset ==
    /\ \E v \in {vad_reset_fn(VadState, now_ms)} : SetVadState(v)
    /\ op' = "vad_reset"
    /\ UNCHANGED <<now_ms, vad_frame, vad_result, segment, got_segment>>
    /\ UNCHANGED <<ringVars, mainVars, bleVars, logVars, pitchVars>>

VadNext ==
    \/ \E dt \in FrameSteps, e \in Energies, z \in Zcrs : vad_process(dt, TRUE, e, z)
    \/ \E dt \in FrameSteps : vad_process(dt, FALSE, 0, 0)
    \/ vad_get_segment
    \/ vad_reset

SpecVAD == VadInit /\ [][VadNext]_vars

(* ---- the adaptive detector in a quiet room and beside a talker -------- *)

(* The detector, in either mode, fed one frame every NoiseStep ms for     *)
(* MaxNoiseTime ms by one of two rooms, told apart by the zero-crossing    *)
(* rate of their frames (both inside the plausible band, so the rate       *)
(* plays no part in the decision).  The quiet room delivers energy 0       *)
(* throughout: the floor decays from 0.01 to its lower limit in about 460  *)
(* frames.  Beside the talker one frame in every OnsetPeriod ms is at full *)
(* scale and the others are silent: the loud frame meets the detector back *)
(* in Silence, raises the floor by about 0.005 and opens a segment, and    *)
(* the floor comes to its upper limit after about twenty of them.          *)
MaxNoiseTime == 23000
NoiseStep == 50
OnsetPeriod == 450
QuietRoomZcr == 100
TalkerZcr == 200
FullScaleEnergy == 1000000

InRoom(zcr) == ~vad_frame.valid \/ vad_frame.zcr = zcr

quiet_room_frame ==
    /\ now_ms + NoiseStep <= MaxNoiseTime
    /\ InRoom(QuietRoomZcr)
    /\ process_frame(NoiseStep, TRUE, 0, QuietRoomZcr)

talker_frame ==
    /\ now_ms + NoiseStep <= MaxNoiseTime
    /\ InRoom(TalkerZcr)
    /\ \E e \in {IF (now_ms + NoiseStep) % OnsetPeriod = NoiseStep
                  THEN FullScaleEnergy ELSE 0} :
          process_frame(NoiseStep, TRUE, e, TalkerZcr)

NoiseInit == VadInit

NoiseNext ==
    \/ quiet_room_frame
    \/ talker_frame

SpecNoise == NoiseInit /\ [][NoiseNext]_vars

(* ---- the per-frame decision at its limits ------------------------------ *)

(* The detector, in either mode, fed up to four frames NoiseStep ms apart  *)
(* (MaxFrameTime ms) whose energies sit on and beside the fixed threshold  *)
(* 0.02 and 1.5 times it, and whose zero-crossing rates sit on and beside  *)
(* the two ends of the plausible band, 0.05 and 0.5.                       *)
MaxFrameTime == 200
LimitEnergies == {0, 19999, 20000, 20001, 29999, 30000, 30001}
LimitZcrs == {49, 50, 500, 501}

limit_frame ==
    \E e \in LimitEnergies, z \in LimitZcrs :
        /\ now_ms + NoiseStep <= MaxFrameTime
        /\ process_frame(NoiseStep, TRUE, e, z)

FrameInit == VadInit

FrameNext == limit_frame

SpecFrame == FrameInit /\ [][FrameNext]_vars

(* ---- the ring buffer driven directly through its public functions ---- *)

\* every module but the pitch detector, idle
BoardIdle ==
    /\ RingInit
    /\ MainIdle
    /\ now_ms = 0
    /\ energy_threshold = VAD_DEFAULT_THRESHOLD
    /\ adaptive_enabled = FALSE
    /\ current_state = "Silence"
    /\ state_start_time = 0
    /\ last_speech_time = 0
    /\ speech_start_time = 0
    /\ noise_floor = NOISE_FLOOR_INIT
    /\ pending_segment = ZeroSegment
    /\ segment_ready = FALSE
    /\ segment_energy_sum = 0
    /\ segment_frame_count = 0
    /\ overwritten = 0
    /\ vad_frame = NoFrame
    /\ vad_result = NoResult
    /\ segment = ZeroSegment
    /\ got_segment = FALSE
    /\ op = "init"

RingOnlyInit == BoardIdle /\ PitchIdle

RingNext ==
    \/ \E k \in 1..DMA_BUF_LEN, lvl \in Levels : audio_process_read(k, lvl)
    \/ audio_process_skip
    \/ audio_get_frame
    \/ audio_start
    \/ audio_stop

SpecRing == RingOnlyInit /\ [][RingNext]_vars

----------------------------------------------------------------------------
(* main.cpp, with ble_send_event / ble_process of ble_service.cpp and       *)
(* feedback_trigger of feedback.cpp                                         *)

RESPONSE_THRESHOLD_MS == 3000
MISSED_OPP_THRESHOLD_MS == 5000

(* Line 288: a segment whose mean energy is below 0.1 is taken for a child. *)
CHILD_ENERGY_LIMIT == 100000

(* session_event_count is a uint16_t.                                      *)
UINT16_MOD == 65536

(* The file-scope state of main.cpp and ble_service.cpp, the two logs, the *)
(* capture flag and the detector, as one record.                           *)
SysState ==
    [session_active |-> session_active, session_start_time |-> session_start_time,
     session_event_count |-> session_event_count,
     last_was_speaking |-> last_was_speaking,
     last_speech_end_time |-> last_speech_end_time,
     waiting_for_response |-> waiting_for_response,
     child_speech_time |-> child_speech_time, last_was_child |-> last_was_child,
     device_connected |-> device_connected,
     old_device_connected |-> old_device_connected,
     events |-> events, feedbacks |-> feedbacks, session_no |-> session_no,
     is_running |-> is_running, vad |-> VadState]

SetSysState(s) ==
    /\ session_active' = s.session_active
    /\ session_start_time' = s.session_start_time
    /\ session_event_count' = s.session_event_count
    /\ last_was_speaking' = s.last_was_speaking
    /\ last_speech_end_time' = s.last_speech_end_time
    /\ waiting_for_response' = s.waiting_for_response
    /\ child_speech_time' = s.child_speech_time
    /\ last_was_child' = s.last_was_child
    /\ device_connected' = s.device_connected
    /\ old_device_connected' = s.old_device_connected
    /\ events' = s.events
    /\ feedbacks' = s.feedbacks
    /\ session_no' = s.session_no
    /\ is_running' = s.is_running
    /\ SetVadState(s.vad)

(* feedback_trigger(type, intensity) for a type that has a pattern: the    *)
(* intensity, in thousandths, is constrained to [0, 1].                    *)
feedback_trigger(s, type, intensity) ==
    [s EXCEPT !.feedbacks =
         Append(@, [type |-> type,
                    intensity |-> IF intensity < 0 THEN 0
                                  ELSE IF intensity > 1000 THEN 1000 ELSE intensity])]

(* In milliseconds; the source divides by 1000.0f to get seconds.          *)
get_session_timestamp_absolute(s, now) == now

get_session_timestamp(s, now) ==
    IF ~s.session_active \/ s.session_start_time = 0 THEN 0
    ELSE U32Sub(now, s.session_start_time)

(* ble_send_event after ble_init(): accepted exactly when a client is      *)
(* connected.                                                              *)
ble_send_event(s) == s.device_connected

(* send_event that counts the event whether or not it was sent.            *)
send_event_count_all(s, type, extra_data, now) ==
    LET event == [type |-> type,
                  timestamp |-> get_session_timestamp(s, now),
                  confidence |-> 800,
                  response_latency |-> IF type = "Return" THEN extra_data ELSE 0,
                  silence_duration |->
                      IF type = "MissedOpportunity" THEN extra_data ELSE 0,
                  accepted |-> ble_send_event(s),
                  session |-> s.session_no,
                  in_session |-> s.session_active]
    IN  [s EXCEPT !.events = Append(@, event),
                  !.session_event_count = (@ + 1) % UINT16_MOD]

(* send_event(type, extra_data); extra_data in milliseconds.  The event    *)
(* is logged with the verdict of ble_send_event, the number of the session *)
(* it was sent in and the value of session_active when it was sent.        *)
send_event(s, type, extra_data, now) ==
    LET event == [type |-> type,
                  timestamp |-> get_session_timestamp(s, now),
                  confidence |-> 800,
                  response_latency |-> IF type = "Return" THEN extra_data ELSE 0,
                  silence_duration |->
                      IF type = "MissedOpportunity" THEN extra_data ELSE 0,
                  accepted |-> ble_send_event(s),
                  session |-> s.session_no,
                  in_session |-> s.session_active]
    IN  [s EXCEPT !.events = Append(@, event),
                  !.session_event_count =
                      IF ble_send_event(s) THEN (@ + 1) % UINT16_MOD ELSE @]

(* process_speech_segment that keeps waiting for a response when the adult  *)
(* answers beyond the threshold.                                           *)
process_speech_segment_keep_waiting(s, seg, now) ==
    IF seg.avg_energy < CHILD_ENERGY_LIMIT
    THEN [send_event(s, "Serve", 0, now) EXCEPT
              !.waiting_for_response = TRUE,
              !.child_speech_time = seg.end_ms,
              !.last_was_child = TRUE]
    ELSE IF s.waiting_for_response
    THEN LET response_time == U32Sub(seg.start_ms, s.child_speech_time)
         IN  IF response_time <= RESPONSE_THRESHOLD_MS
             THEN [feedback_trigger(
                       send_event(s, "Return", response_time, now),
                       "GOOD_TURN", 300)
                   EXCEPT !.waiting_for_response = FALSE, !.last_was_child = FALSE]
             ELSE s
    ELSE s

(* process_speech_segment with the Return test strict (<) instead of <=.   *)
process_speech_segment_strict(s, seg, now) ==
    IF seg.avg_energy < CHILD_ENERGY_LIMIT
    THEN [send_event(s, "Serve", 0, now) EXCEPT
              !.waiting_for_response = TRUE,
              !.child_speech_time = seg.end_ms,
              !.last_was_child = TRUE]
    ELSE IF s.waiting_for_response
    THEN LET response_time == U32Sub(seg.start_ms, s.child_speech_time)
             s1 == IF response_time < RESPONSE_THRESHOLD_MS
                   THEN feedback_trigger(
                            send_event(s, "Return", response_time, now),
                            "GOOD_TURN", 300)
                   ELSE s
         IN  [s1 EXCEPT !.waiting_for_response = FALSE, !.last_was_child = FALSE]
    ELSE s

(* process_speech_segment that keeps the first child end time while a      *)
(* Serve is already pending.                                               *)
process_speech_segment_keep_first(s, seg, now) ==
    IF seg.avg_energy < CHILD_ENERGY_LIMIT
    THEN [send_event(s, "Serve", 0, now) EXCEPT
              !.waiting_for_response = TRUE,
              !.child_speech_time =
                  IF s.waiting_for_response THEN @ ELSE seg.end_ms,
              !.last_was_child = TRUE]
    ELSE IF s.waiting_for_response
    THEN LET response_time == U32Sub(seg.start_ms, s.child_speech_time)
             s1 == IF response_time <= RESPONSE_THRESHOLD_MS
                   THEN feedback_trigger(
                            send_event(s, "Return", response_time, now),
                            "GOOD_TURN", 300)
                   ELSE s
         IN  [s1 EXCEPT !.waiting_for_response = FALSE, !.last_was_child = FALSE]
    ELSE s

(* process_speech_segment that also signals a Serve to the wearer.         *)
process_speech_segment_serve_feedback(s, seg, now) ==
    IF seg.avg_energy < CHILD_ENERGY_LIMIT
    THEN [feedback_trigger(send_event(s, "Serve", 0, now), "GOOD_TURN", 300) EXCEPT
              !.waiting_for_response = TRUE,
              !.child_speech_time = seg.end_ms,
              !.last_was_child = TRUE]
    ELSE IF s.waiting_for_response
    THEN LET response_time == U32Sub(seg.start_ms, s.child_speech_time)
             s1 == IF response_time <= RESPONSE_THRESHOLD_MS
                   THEN feedback_trigger(
                            send_event(s, "Return", response_time, now),
                            "GOOD_TURN", 300)
                   ELSE s
         IN  [s1 EXCEPT !.waiting_for_response = FALSE, !.last_was_child = FALSE]
    ELSE s

process_speech_segment(s, seg, now) ==
    IF seg.avg_energy < CHILD_ENERGY_LIMIT
    THEN [send_event(s, "Serve", 0, now) EXCEPT
              !.waiting_for_response = TRUE,
              !.child_speech_time = seg.end_ms,
              !.last_was_child = TRUE]
    ELSE IF s.waiting_for_response
    THEN LET response_time == U32Sub(seg.start_ms, s.child_speech_time)
             s1 == IF response_time <= RESPONSE_THRESHOLD_MS
                   THEN feedback_trigger(
                            send_event(s, "Return", response_time, now),
                            "GOOD_TURN", 300)
                   ELSE s
         IN  [s1 EXCEPT !.waiting_for_response = FALSE, !.last_was_child = FALSE]
    ELSE s

(* check_missed_opportunity that leaves waiting-for-response set.          *)
check_missed_opportunity_keep_waiting(s, now) ==
    IF ~s.waiting_for_response THEN s
    ELSE LET silence == vad_silence_duration_fn(s.vad, now)
         IN  IF silence >= MISSED_OPP_THRESHOLD_MS
             THEN feedback_trigger(
                      send_event(s, "MissedOpportunity", silence, now),
                      "MISSED_OPP", 700)
             ELSE s

check_missed_opportunity(s, now) ==
    IF ~s.waiting_for_response THEN s
    ELSE LET silence == vad_silence_duration_fn(s.vad, now)
         IN  IF silence >= MISSED_OPP_THRESHOLD_MS
             THEN [feedback_trigger(
                       send_event(s, "MissedOpportunity", silence, now),
                       "MISSED_OPP", 700)
                   EXCEPT !.waiting_for_response = FALSE, !.last_was_child = FALSE]
             ELSE s

(* on_session_control whose start leaves waiting-for-response as it was.   *)
on_session_control_keep_waiting(s, start, now) ==
    IF start /\ ~s.session_active
    THEN feedback_trigger(
             [s EXCEPT !.session_active = TRUE,
                       !.session_start_time = now,
                       !.session_event_count = 0,
                       !.last_was_speaking = FALSE,
                       !.last_speech_end_time = 0,
                       !.vad = vad_reset_fn(@, now),
                       !.is_running = TRUE,
                       !.session_no = @ + 1],
             "SESSION_START", 1000)
    ELSE IF ~start /\ s.session_active
    THEN feedback_trigger([s EXCEPT !.session_active = FALSE, !.is_running = FALSE],
                          "SESSION_END", 1000)
    ELSE s

(* on_session_control that starts over on every start command.             *)
on_session_control_restart(s, start, now) ==
    IF start
    THEN feedback_trigger(
             [s EXCEPT !.session_active = TRUE,
                       !.session_start_time = now,
                       !.session_event_count = 0,
                       !.last_was_speaking = FALSE,
                       !.last_speech_end_time = 0,
                       !.waiting_for_response = FALSE,
                       !.last_was_child = FALSE,
                       !.vad = vad_reset_fn(@, now),
                       !.is_running = TRUE,
                       !.session_no = @ + 1],
             "SESSION_START", 1000)
    ELSE IF ~start /\ s.session_active
    THEN feedback_trigger([s EXCEPT !.session_active = FALSE, !.is_running = FALSE],
                          "SESSION_END", 1000)
    ELSE s

on_session_control(s, start, now) ==
    IF start /\ ~s.session_active
    THEN feedback_trigger(
             [s EXCEPT !.session_active = TRUE,
                       !.session_start_time = now,
                       !.session_event_count = 0,
                       !.last_was_speaking = FALSE,
                       !.last_speech_end_time = 0,
                       !.waiting_for_response = FALSE,
                       !.last_was_child = FALSE,
                       !.vad = vad_reset_fn(@, now),
                       !.is_running = TRUE,
                       !.session_no = @ + 1],
             "SESSION_START", 1000)
    ELSE IF ~start /\ s.session_active
    THEN feedback_trigger([s EXCEPT !.session_active = FALSE, !.is_running = FALSE],
                          "SESSION_END", 1000)
    ELSE s

(* on_ble_connection that ends the session itself and leaves capture on.   *)
on_ble_connection_capture_on(s, connected, now) ==
    IF connected THEN feedback_trigger(s, "CONNECTED", 500)
    ELSE LET s1 == feedback_trigger(s, "DISCONNECTED", 500)
         IN  IF s1.session_active
             THEN feedback_trigger([s1 EXCEPT !.session_active = FALSE],
                                   "SESSION_END", 1000)
             ELSE s1

on_ble_connection(s, connected, now) ==
    IF connected THEN feedback_trigger(s, "CONNECTED", 500)
    ELSE LET s1 == feedback_trigger(s, "DISCONNECTED", 500)
         IN  IF s1.session_active THEN on_session_control(s1, FALSE, now) ELSE s1

ble_process(s, now) ==
    IF s.device_connected # s.old_device_connected
    THEN [on_ble_connection(s, s.device_connected, now) EXCEPT
              !.old_device_connected = s.device_connected]
    ELSE s

(* ---- pitch_detector.cpp ------------------------------------------------- *)
(* Pitches are in hundredths of a hertz, the normalised difference and the  *)
(* confidence in millionths, a refined lag in thousandths of a sample.  The *)
(* difference function is summed exactly and kept in units of DIFF_UNIT     *)
(* squared counts, so that its running sum stays within 32 bits.            *)

PITCH_MIN_HZ == 75

PITCH_MAX_HZ == 500

PITCH_CHILD_THRESHOLD_HZ == 280

YIN_THRESHOLD == 150000

YIN_FALLBACK_LIMIT == 500000

DIFF_BUFFER_LIMIT == 255

PITCH_WINDOW_SAMPLES == 800

MAX_PITCHES == 16

\* (0.01 * 32768)^2 = 107374.1824, the whole part and the ten-thousandths
RMS_FLOOR_SQ == 107374

RMS_FLOOR_SQ_FRAC == 1824

DIFF_UNIT == 256

ONE == 1000000

\* n / m in millionths for 0 <= n and 0 < m, by long division within 32 bits
Ratio(n, m) ==
    LET k  == (m \div 2000000) + 1
        d  == m \div k
        r1 == (n \div k) % d
        r2 == (r1 * 1000) % d
    IN  ((n \div k) \div d) * ONE + ((r1 * 1000) \div d) * 1000 + (r2 * 1000) \div d

\* 500 * num / den for 0 < den, within 32 bits
Half(num, den) ==
    IF num <= 4000000 /\ num >= -4000000 THEN (num * 500) \div den
    ELSE ((num \div 1000) * 500) \div (den \div 1000)

\* the buffer of the caller: C index j is element j + 1
Sample(samples, j) == samples[j + 1]

pitch_classify_strict(pitch_hz) ==
    IF pitch_hz <= 0 THEN "Unknown"
    ELSE IF pitch_hz > PITCH_CHILD_THRESHOLD_HZ * 100 THEN "Child"
    ELSE "Adult"

pitch_classify(pitch_hz) ==
    IF pitch_hz <= 0 THEN "Unknown"
    ELSE IF pitch_hz >= PITCH_CHILD_THRESHOLD_HZ * 100 THEN "Child"
    ELSE "Adult"

\* sum over j in lo..hi of (samples[j] - samples[j + tau])^2
RECURSIVE SumDelta(_, _, _, _)
SumDelta(samples, tau, lo, hi) ==
    IF lo > hi THEN 0
    ELSE IF lo = hi
    THEN LET delta == Sample(samples, lo) - Sample(samples, lo + tau)
         IN  delta * delta
    ELSE LET mid == (lo + hi) \div 2
         IN  SumDelta(samples, tau, lo, mid) + SumDelta(samples, tau, mid + 1, hi)

\* diff[1 .. tau_max - 1]; diff[0] is 0 here and 1.0 after the next step
yin_difference(samples, count, tau_max) ==
    SubSeq([tau \in 1..(tau_max - 1) |->
               SumDelta(samples, tau, 0, count - tau_max - 1) \div DIFF_UNIT],
           1, tau_max - 1)

\* diff[lo] + ... + diff[hi]
RECURSIVE SumSeq(_, _, _)
SumSeq(diff, lo, hi) ==
    IF lo > hi THEN 0
    ELSE IF lo = hi THEN diff[lo]
    ELSE LET mid == (lo + hi) \div 2
         IN  SumSeq(diff, lo, mid) + SumSeq(diff, mid + 1, hi)

\* running_sum at lag tau is diff[1] + ... + diff[tau]
yin_cumulative_mean(diff, tau_max) ==
    SubSeq([tau \in 1..(tau_max - 1) |->
               LET running_sum == SumSeq(diff, 1, tau)
               IN  IF running_sum > 0 THEN Ratio(diff[tau] * tau, running_sum)
                   ELSE ONE],
           1, tau_max - 1)

DiffAt(diff, tau) == IF tau = 0 THEN ONE ELSE diff[tau]

\* the first of two lags to qualify, -1 when neither does
OrElse(first, rest) == IF first >= 0 THEN first ELSE rest

\* the first loop run over tau = lo .. hi: the lag it returns at, or -1
\* when it runs to its end
RECURSIVE FirstDip(_, _, _, _)
FirstDip(diff, lo, hi, threshold) ==
    IF lo > hi THEN -1
    ELSE IF lo = hi
    THEN IF /\ DiffAt(diff, lo) < threshold
            /\ DiffAt(diff, lo) < DiffAt(diff, lo - 1)
            /\ DiffAt(diff, lo) <= DiffAt(diff, lo + 1)
         THEN lo ELSE -1
    ELSE OrElse(FirstDip(diff, lo, (lo + hi) \div 2, threshold),
                FirstDip(diff, (lo + hi) \div 2 + 1, hi, threshold))

\* min_tau once the second loop has passed an earlier and a later lag
Lower(diff, earlier, later) ==
    IF DiffAt(diff, later) < DiffAt(diff, earlier) THEN later ELSE earlier

\* min_tau after the second loop has run over tau = lo .. hi
RECURSIVE MinScan(_, _, _)
MinScan(diff, lo, hi) ==
    IF lo >= hi THEN lo
    ELSE Lower(diff, MinScan(diff, lo, (lo + hi) \div 2),
               MinScan(diff, (lo + hi) \div 2 + 1, hi))

yin_absolute_threshold_global(diff, tau_min, tau_max, threshold) ==
    LET min_tau == MinScan(diff, tau_min, tau_max - 1)
    IN  IF DiffAt(diff, min_tau) < YIN_FALLBACK_LIMIT THEN min_tau ELSE -1

\* the step that falls back to the minimum whatever its value
yin_absolute_threshold_any_minimum(diff, tau_min, tau_max, threshold) ==
    OrElse(FirstDip(diff, tau_min, tau_max - 2, threshold),
           MinScan(diff, tau_min, tau_max - 1))

\* the lag the second loop and the final test return
FallBack(diff, min_tau) ==
    IF DiffAt(diff, min_tau) < YIN_FALLBACK_LIMIT THEN min_tau ELSE -1

yin_absolute_threshold(diff, tau_min, tau_max, threshold) ==
    OrElse(FirstDip(diff, tau_min, tau_max - 2, threshold),
           FallBack(diff, MinScan(diff, tau_min, tau_max - 1)))

\* a lag beyond every buffer, the quotient by the 1e-10 of the denominator
HUGE_LAG == 1000000000

yin_parabolic_interpolation(diff, tau, tau_max) ==
    IF tau <= 0 \/ tau >= tau_max - 1 THEN tau * 1000
    ELSE LET s0  == DiffAt(diff, tau - 1)
             s1  == DiffAt(diff, tau)
             s2  == DiffAt(diff, tau + 1)
             den == 2 * s1 - s2 - s0
         IN  IF den > 0 THEN tau * 1000 + Half(s2 - s0, den)
             ELSE IF den < 0 THEN tau * 1000 - Half(s2 - s0, -den)
             ELSE IF s2 > s0 THEN tau * 1000 + HUGE_LAG
             ELSE IF s2 < s0 THEN tau * 1000 - HUGE_LAG
             ELSE tau * 1000

RECURSIVE SumSquares(_, _, _)
SumSquares(samples, lo, hi) ==
    IF lo > hi THEN 0
    ELSE IF lo = hi THEN Sample(samples, lo) * Sample(samples, lo)
    ELSE LET mid == (lo + hi) \div 2
         IN  SumSquares(samples, lo, mid) + SumSquares(samples, mid + 1, hi)

\* sqrt(energy / count) / 32768 < 0.01, i.e. energy / count < 327.68^2
TooQuiet(energy, count) ==
    \/ energy \div count < RMS_FLOOR_SQ
    \/ /\ energy \div count = RMS_FLOOR_SQ
       /\ (energy % count) * 10000 < count * RMS_FLOOR_SQ_FRAC

Returned(result, path) == [result |-> result, path |-> path]

pitch_from_lag_sentinel(diff, tau, tau_refined, sample_rate) ==
    LET hz == ((sample_rate * 1000) \div tau_refined) * 100
              + (((sample_rate * 1000) % tau_refined) * 100) \div tau_refined
        pitch_hz == IF hz > 0 THEN hz ELSE 1
    IN  IF tau_refined <= 0
        THEN Returned([NoPitch EXCEPT !.pitch_hz = -100], "degenerate")
        ELSE Returned([valid      |-> TRUE,
                       pitch_hz   |-> pitch_hz,
                       confidence |-> ONE - DiffAt(diff, tau),
                       speaker    |-> pitch_classify(pitch_hz)], "ok")

\* pitch_estimate from the conversion of the refined lag on
pitch_from_lag(diff, tau, tau_refined, sample_rate) ==
    LET hz == ((sample_rate * 1000) \div tau_refined) * 100
              + (((sample_rate * 1000) % tau_refined) * 100) \div tau_refined
        pitch_hz == IF hz > 0 THEN hz ELSE 1
    IN  IF tau_refined <= 0 THEN Returned(NoPitch, "degenerate")
        ELSE Returned([valid      |-> TRUE,
                       pitch_hz   |-> pitch_hz,
                       confidence |-> ONE - DiffAt(diff, tau),
                       speaker    |-> pitch_classify(pitch_hz)], "ok")

\* pitch_estimate from the test of the chosen lag on
pitch_from_threshold(diff, tau, tau_max, sample_rate) ==
    IF tau < 0 THEN Returned(NoPitch, "unvoiced")
    ELSE pitch_from_lag(diff, tau, yin_parabolic_interpolation(diff, tau, tau_max),
                        sample_rate)

\* pitch_estimate from YIN step 4 on
pitch_from_diff(diff, tau_min, tau_max, sample_rate) ==
    pitch_from_threshold(diff, yin_absolute_threshold(diff, tau_min, tau_max, YIN_THRESHOLD),
                         tau_max, sample_rate)

pitch_estimate_fn_no_floor(samples, count, sample_rate) ==
    LET tau_min == sample_rate \div PITCH_MAX_HZ
        tau_all == sample_rate \div PITCH_MIN_HZ
        tau_max == IF tau_all > DIFF_BUFFER_LIMIT THEN DIFF_BUFFER_LIMIT ELSE tau_all
    IN  IF count < tau_max * 2 THEN Returned(NoPitch, "short")
        ELSE pitch_from_diff(
                 yin_cumulative_mean(yin_difference(samples, count, tau_max), tau_max),
                 tau_min, tau_max, sample_rate)

pitch_estimate_fn(samples, count, sample_rate) ==
    LET tau_min == sample_rate \div PITCH_MAX_HZ
        tau_all == sample_rate \div PITCH_MIN_HZ
        tau_max == IF tau_all > DIFF_BUFFER_LIMIT THEN DIFF_BUFFER_LIMIT ELSE tau_all
    IN  IF count < tau_max * 2 THEN Returned(NoPitch, "short")
        ELSE IF TooQuiet(SumSquares(samples, 0, count - 1), count)
        THEN Returned(NoPitch, "quiet")
        ELSE pitch_from_diff(
                 yin_cumulative_mean(yin_difference(samples, count, tau_max), tau_max),
                 tau_min, tau_max, sample_rate)

\* one pass of the bubble sort over pitches[1 .. last]
RECURSIVE BubblePass(_, _, _)
BubblePass(pitches, j, last) ==
    IF j >= last THEN pitches
    ELSE BubblePass(IF pitches[j] > pitches[j + 1]
                    THEN [pitches EXCEPT ![j] = pitches[j + 1], ![j + 1] = pitches[j]]
                    ELSE pitches,
                    j + 1, last)

RECURSIVE BubbleSort(_, _)
BubbleSort(pitches, last) ==
    IF last <= 1 THEN pitches
    ELSE BubbleSort(BubblePass(pitches, 1, last), last - 1)

KeepPitch(pitches, r) ==
    IF r.valid /\ r.pitch_hz > PITCH_MIN_HZ * 100 /\ r.pitch_hz < PITCH_MAX_HZ * 100
    THEN Append(pitches, r.pitch_hz)
    ELSE pitches

\* the pitches kept from the windows at offsets i, i + hop_size, ...
RECURSIVE WindowPitches(_, _, _, _, _)
WindowPitches(samples, count, sample_rate, i, pitches) ==
    IF i + PITCH_WINDOW_SAMPLES > count \/ Len(pitches) >= MAX_PITCHES THEN pitches
    ELSE WindowPitches(samples, count, sample_rate, i + PITCH_WINDOW_SAMPLES \div 2,
             KeepPitch(pitches,
                 pitch_estimate_fn(SubSeq(samples, i + 1, i + PITCH_WINDOW_SAMPLES),
                                   PITCH_WINDOW_SAMPLES, sample_rate).result))

pitch_estimate_robust_fn(samples, count, sample_rate) ==
    LET pitches     == WindowPitches(samples, count, sample_rate, 0, <<>>)
        pitch_count == Len(pitches)
        median      == BubbleSort(pitches, pitch_count)[pitch_count \div 2 + 1]
        confidence  == (pitch_count * ONE) \div 8
    IN  IF pitch_count = 0 THEN Returned(NoPitch, "no_window")
        ELSE Returned([valid      |-> TRUE,
                       pitch_hz   |-> median,
                       confidence |-> IF confidence > ONE THEN ONE ELSE confidence,
                       speaker    |-> pitch_classify(median)], "median")

(* ---- the pitch detector driven directly through its public functions --- *)
(* The caller's buffer is described by a signal and generated sample by     *)
(* sample: a tone from a quarter-wave table read with linear interpolation, *)
(* silence, an aperiodic sequence, or a pattern repeated at half the        *)
(* amplitude each time (a decaying resonance).                              *)

SinQ ==
    <<0, 245, 491, 736, 980, 1224, 1467, 1710, 1951, 2191, 2430,
      2667, 2903, 3137, 3369, 3599, 3827, 4052, 4276, 4496, 4714,
      4929, 5141, 5350, 5556, 5758, 5957, 6152, 6344, 6532, 6716,
      6895, 7071, 7242, 7410, 7572, 7730, 7883, 8032, 8176, 8315,
      8449, 8577, 8701, 8819, 8932, 9040, 9142, 9239, 9330, 9415,
      9495, 9569, 9638, 9700, 9757, 9808, 9853, 9892, 9925, 9952,
      9973, 9988, 9997, 10000>>

Sin256(i) ==
    LET k == i % 256
    IN  IF k <= 64 THEN SinQ[k + 1]
        ELSE IF k <= 128 THEN SinQ[129 - k]
        ELSE IF k <= 192 THEN -SinQ[k - 127]
        ELSE -SinQ[257 - k]

\* 10000 * sin(2 pi phase / 65536)
SinWave(phase) ==
    LET i == (phase % 65536) \div 256
        a == Sin256(i)
        b == Sin256(i + 1)
    IN  a + ((b - a) * (phase % 256)) \div 256

\* an aperiodic sequence within -128 .. 128
Scatter(j, a, b) == ((j * j * a + j * b + 5) % 257) - 128

\* one period of the decaying resonance, smoothed over four samples
Pattern(i) == Scatter(i, 2, 0) + Scatter(i + 1, 2, 0) + Scatter(i + 2, 2, 0)
              + Scatter(i + 3, 2, 0)

Wave(sig, sample_rate, j) ==
    IF sig.kind = "tone"
    THEN (sig.amp * SinWave(sig.phase * 256
                            + (((j * sig.hz) % sample_rate) * 65536) \div sample_rate))
         \div 10000
    ELSE IF sig.kind = "noise"
    THEN (sig.amp * Scatter(j, 7, 13)) \div 128
    ELSE IF sig.kind = "decay"
    THEN ((sig.amp \div 2 ^ (j \div sig.period)) * Pattern(j % sig.period)) \div 128
    ELSE 0

Samples(sig, sample_rate, count) ==
    SubSeq([j \in 1..count |-> Wave(sig, sample_rate, j - 1)], 1, count)

ToneHz == {75, 76, 100, 150, 200, 279, 280, 281, 440, 499, 500}

ToneAmps == {100, 450, 500}

TonePhases == {0, 64}

NoiseAmps == {500, 1500}

Signals ==
    {[kind |-> "tone", hz |-> f, amp |-> a, phase |-> p] :
        f \in ToneHz, a \in ToneAmps, p \in TonePhases}
    \cup {[kind |-> "zero"]}
    \cup {[kind |-> "noise", amp |-> a] : a \in NoiseAmps}

\* one sample less than the shortest lag searched at the firmware's rate
DecayPeriod == 31

FirmwareSignals ==
    {[kind |-> "tone", hz |-> f, amp |-> a, phase |-> p] :
        f \in ToneHz, a \in ToneAmps, p \in TonePhases}
    \cup {[kind |-> "zero"], [kind |-> "noise", amp |-> 1500],
          [kind |-> "decay", period |-> DecayPeriod, amp |-> 800]}

RobustSignals ==
    {[kind |-> "tone", hz |-> f, amp |-> 500, phase |-> 0] : f \in {100, 280, 500}}
    \cup {[kind |-> "tone", hz |-> 200, amp |-> 100, phase |-> 0],
          [kind |-> "zero"], [kind |-> "noise", amp |-> 1500]}

AUDIO_SAMPLE_RATE == 16000

LowRate == 3000

MaxLag(sample_rate) ==
    IF sample_rate \div PITCH_MIN_HZ > DIFF_BUFFER_LIMIT THEN DIFF_BUFFER_LIMIT
    ELSE sample_rate \div PITCH_MIN_HZ

WindowSlack == 30

\* one sample short, just enough, and some to spare
WindowCounts(sample_rate) ==
    {2 * MaxLag(sample_rate) - 1, 2 * MaxLag(sample_rate),
     2 * MaxLag(sample_rate) + WindowSlack}

ClassifyInputs == {-100, 0, 1, 7500, 27999, 28000, 28001, 50000}

EstimateCalls(sample_rate, signals, counts) ==
    {[fn |-> "pitch_estimate", sig |-> sig, count |-> n, sample_rate |-> sample_rate] :
        sig \in signals, n \in counts}

RobustCalls(sample_rate, counts) ==
    {[fn |-> "pitch_estimate_robust", sig |-> sig, count |-> n,
      sample_rate |-> sample_rate] : sig \in RobustSignals, n \in counts}

PitchCalls ==
    {[fn |-> "pitch_classify", pitch_hz |-> hz] : hz \in ClassifyInputs}
    \cup EstimateCalls(LowRate, Signals, WindowCounts(LowRate))
    \cup EstimateCalls(AUDIO_SAMPLE_RATE, FirmwareSignals,
                       WindowCounts(AUDIO_SAMPLE_RATE))
    \cup RobustCalls(LowRate, {PITCH_WINDOW_SAMPLES - 1, PITCH_WINDOW_SAMPLES,
                               2 * PITCH_WINDOW_SAMPLES})
    \cup RobustCalls(AUDIO_SAMPLE_RATE, {PITCH_WINDOW_SAMPLES - 1, PITCH_WINDOW_SAMPLES})

\* a call is pending: its arguments are set and it has not returned
Pending(fn) == pitch_in.fn = fn /\ pitch_path = "none"

pitch_classify_call ==
    /\ Pending("pitch_classify")
    /\ pitch_result' = [NoPitch EXCEPT !.speaker = pitch_classify(pitch_in.pitch_hz)]
    /\ pitch_path' = "classified"
    /\ op' = "pitch_classify"
    /\ UNCHANGED <<ringVars, now_ms, vadVars, vadCallerVars, mainVars, bleVars,
                   logVars, pitch_in>>

pitch_estimate ==
    /\ Pending("pitch_estimate")
    /\ \E samples \in {Samples(pitch_in.sig, pitch_in.sample_rate, pitch_in.count)} :
         \E r \in {pitch_estimate_fn(samples, pitch_in.count, pitch_in.sample_rate)} :
            /\ pitch_result' = r.result
            /\ pitch_path' = r.path
    /\ op' = "pitch_estimate"
    /\ UNCHANGED <<ringVars, now_ms, vadVars, vadCallerVars, mainVars, bleVars,
                   logVars, pitch_in>>

pitch_estimate_robust ==
    /\ Pending("pitch_estimate_robust")
    /\ \E samples \in {Samples(pitch_in.sig, pitch_in.sample_rate, pitch_in.count)} :
         \E r \in {pitch_estimate_robust_fn(samples, pitch_in.count,
                                            pitch_in.sample_rate)} :
            /\ pitch_result' = r.result
            /\ pitch_path' = r.path
    /\ op' = "pitch_estimate_robust"
    /\ UNCHANGED <<ringVars, now_ms, vadVars, vadCallerVars, mainVars, bleVars,
                   logVars, pitch_in>>

PitchInit ==
    /\ BoardIdle
    /\ pitch_in \in PitchCalls
    /\ pitch_result = NoPitch
    /\ pitch_path = "none"

PitchNext ==
    \/ pitch_classify_call
    \/ pitch_estimate
    \/ pitch_estimate_robust

SpecPitch == PitchInit /\ [][PitchNext]_vars

(* ---- YIN step 4 driven directly ---------------------------------------- *)

(* yin_absolute_threshold called as pitch_estimate calls it, with the      *)
(* threshold 0.15, on every curve of ThresholdTauMax lags that             *)
(* yin_cumulative_mean can leave (1.0 at lags 0 and 1) whose other values  *)
(* sit well below, just below and on the threshold and just below and on   *)
(* the limit of the fall-back; the search range starts at ThresholdTauMin. *)
ThresholdTauMax == 8
ThresholdTauMin == 2
ThresholdValues == {50000, 100000, 149999, 150000, 499999, 500000}

ThresholdCurves ==
    {d \in [1..(ThresholdTauMax - 1) -> ThresholdValues \cup {ONE}] :
        /\ d[1] = ONE
        /\ \A tau \in 2..(ThresholdTauMax - 1) : d[tau] # ONE}

ThresholdCalls ==
    {[fn |-> "yin_absolute_threshold", diff |-> d, tau_min |-> ThresholdTauMin,
      tau_max |-> ThresholdTauMax, threshold |-> YIN_THRESHOLD] :
        d \in ThresholdCurves}

yin_absolute_threshold_call ==
    /\ Pending("yin_absolute_threshold")
    /\ pitch_result' = [tau |-> yin_absolute_threshold(pitch_in.diff, pitch_in.tau_min,
                                                       pitch_in.tau_max,
                                                       pitch_in.threshold)]
    /\ pitch_path' = "threshold"
    /\ op' = "yin_absolute_threshold"
    /\ UNCHANGED <<ringVars, now_ms, vadVars, vadCallerVars, mainVars, bleVars,
                   logVars, pitch_in>>

ThresholdInit ==
    /\ BoardIdle
    /\ pitch_in \in ThresholdCalls
    /\ pitch_result = NoPitch
    /\ pitch_path = "none"

ThresholdNext == yin_absolute_threshold_call

SpecThreshold == ThresholdInit /\ [][ThresholdNext]_vars

(* ---- the firmware after setup(): loop() and the transport callbacks --- *)

(* millis() when setup() calls vad_init(): after its delays of 1000 ms and *)
(* 300 ms.  Time a run spans after that, the time between two iterations   *)
(* of loop(), the sessions a run may start, the sound levels of a frame    *)
(* (ambient noise at the initial noise floor, loud speech) and the number  *)
(* of samples one i2s_read delivers (none, a frame, a full DMA block).     *)
BootTime == 1300
LoopEnergies == {10000, 500000}

(* The state setup() leaves: vad_init() and vad_set_adaptive(true) ran,    *)
(* capture is initialized but not started, no client is connected, and     *)
(* feedback_trigger was called twice (lines 97 and 132).                   *)
SetupState ==
    [session_active |-> FALSE, session_start_time |-> 0, session_event_count |-> 0,
     last_was_speaking |-> FALSE, last_speech_end_time |-> 0,
     waiting_for_response |-> FALSE, child_speech_time |-> 0,
     last_was_child |-> FALSE,
     device_connected |-> FALSE, old_device_connected |-> FALSE,
     events |-> <<>>,
     feedbacks |-> <<[type |-> "SESSION_START", intensity |-> 300],
                     [type |-> "CONNECTED", intensity |-> 500]>>,
     session_no |-> 0, is_running |-> FALSE,
     vad |-> VadInitState(BootTime, TRUE)]

(* The variables of SysState hold the record s.                            *)
SysStateIs(s) ==
    /\ session_active = s.session_active
    /\ session_start_time = s.session_start_time
    /\ session_event_count = s.session_event_count
    /\ last_was_speaking = s.last_was_speaking
    /\ last_speech_end_time = s.last_speech_end_time
    /\ waiting_for_response = s.waiting_for_response
    /\ child_speech_time = s.child_speech_time
    /\ last_was_child = s.last_was_child
    /\ device_connected = s.device_connected
    /\ old_device_connected = s.old_device_connected
    /\ events = s.events
    /\ feedbacks = s.feedbacks
    /\ session_no = s.session_no
    /\ is_running = s.is_running
    /\ energy_threshold = s.vad.energy_threshold
    /\ adaptive_enabled = s.vad.adaptive_enabled
    /\ current_state = s.vad.current_state
    /\ state_start_time = s.vad.state_start_time
    /\ last_speech_time = s.vad.last_speech_time
    /\ speech_start_time = s.vad.speech_start_time
    /\ noise_floor = s.vad.noise_floor
    /\ pending_segment = s.vad.pending_segment
    /\ segment_ready = s.vad.segment_ready
    /\ segment_energy_sum = s.vad.segment_energy_sum
    /\ segment_frame_count = s.vad.segment_frame_count
    /\ overwritten = s.vad.overwritten

(* Everything but SysState, as audio_init() and setup() leave it.          *)
CallerInit ==
    /\ audio_buffer = [i \in 0..(AUDIO_BUFFER_SIZE - 1) |-> 0]
    /\ write_index = 0
    /\ read_index = 0
    /\ current_level = 0
    /\ frame = [samples |-> [i \in 1..AUDIO_FRAME_SAMPLES |-> 0],
                timestamp_ms |-> 0, valid |-> FALSE]
    /\ got_frame = FALSE
    /\ pushed = 0
    /\ out = <<>>
    /\ overflowed = FALSE
    /\ vad_frame = NoFrame
    /\ vad_result = NoResult
    /\ segment = ZeroSegment
    /\ got_segment = FALSE
    /\ now_ms = BootTime
    /\ PitchIdle
    /\ op = "init"

(* loop() with the missed-opportunity check inside the branch that got a  *)
(* frame.                                                                  *)
loop_check_on_frame(dt, k, e, z) ==
    /\ now_ms' = now_ms + dt
    /\ \E now \in {now_ms + dt} :
       \E s1 \in {ble_process(SysState, now)} :
       \E b1 \in {IF s1.is_running /\ k > 0
                  THEN copy_to_circular(
                           [buf |-> audio_buffer, wi |-> write_index,
                            ri |-> read_index],
                           [i \in 1..k |-> s1.session_no])
                  ELSE [buf |-> audio_buffer, wi |-> write_index,
                        ri |-> read_index]} :
       \E g \in {IF s1.session_active
                 THEN audio_get_frame_fn(b1.buf, b1.wi, b1.ri, frame, now)
                 ELSE [ret |-> FALSE, frame |-> frame, ri |-> b1.ri]} :
       \E f \in {[timestamp_ms |-> now, valid |-> TRUE, energy |-> e, zcr |-> z]} :
       \E r \in {IF g.ret THEN vad_process_fn(s1.vad, f)
                 ELSE [v |-> s1.vad, result |-> vad_result]} :
       \E q \in {IF g.ret THEN vad_get_segment_fn(r.v, segment)
                 ELSE [v |-> r.v, ret |-> FALSE, segment |-> segment]} :
       \E s2 \in {IF q.ret
                  THEN process_speech_segment([s1 EXCEPT !.vad = q.v], q.segment, now)
                  ELSE [s1 EXCEPT !.vad = q.v]} :
       \E s3 \in {IF g.ret
                  THEN [s2 EXCEPT !.last_speech_end_time =
                                      IF ~r.result.is_speech /\ s2.last_was_speaking
                                      THEN now ELSE @,
                                  !.last_was_speaking = r.result.is_speech]
                  ELSE s2} :
       \E s4 \in {IF g.ret THEN check_missed_opportunity(s3, now)
                  ELSE s3} :
          /\ SetSysState(s4)
          /\ audio_buffer' = b1.buf
          /\ write_index' = b1.wi
          /\ read_index' = g.ri
          /\ current_level' = IF s1.is_running /\ k > 0 THEN e ELSE current_level
          /\ frame' = g.frame
          /\ got_frame' = g.ret
          /\ vad_frame' = IF g.ret THEN f ELSE vad_frame
          /\ vad_result' = r.result
          /\ segment' = q.segment
          /\ got_segment' = q.ret
    /\ op' = "loop"
    /\ UNCHANGED <<pushed, out, overflowed, pitchVars>>

(* One iteration of loop(), dt ms after the previous one: ble_process(),   *)
(* audio_process() with a hardware read that delivers k samples (0: error  *)
(* or no data) and, in a session, audio_get_frame, vad_process on the      *)
(* frame (of energy e and zero-crossing rate z), vad_get_segment,          *)
(* process_speech_segment, the speaking flag and check_missed_opportunity. *)
(* The status report and the debug print of lines 182-203 change nothing   *)
(* modelled here.  Samples carry the number of the session they were       *)
(* captured in.                                                            *)
loop(dt, k, e, z) ==
    /\ now_ms' = now_ms + dt
    /\ \E now \in {now_ms + dt} :
       \E s1 \in {ble_process(SysState, now)} :
       \E b1 \in {IF s1.is_running /\ k > 0
                  THEN copy_to_circular(
                           [buf |-> audio_buffer, wi |-> write_index,
                            ri |-> read_index],
                           [i \in 1..k |-> s1.session_no])
                  ELSE [buf |-> audio_buffer, wi |-> write_index,
                        ri |-> read_index]} :
       \E g \in {IF s1.session_active
                 THEN audio_get_frame_fn(b1.buf, b1.wi, b1.ri, frame, now)
                 ELSE [ret |-> FALSE, frame |-> frame, ri |-> b1.ri]} :
       \E f \in {[timestamp_ms |-> now, valid |-> TRUE, energy |-> e, zcr |-> z]} :
       \E r \in {IF g.ret THEN vad_process_fn(s1.vad, f)
                 ELSE [v |-> s1.vad, result |-> vad_result]} :
       \E q \in {IF g.ret THEN vad_get_segment_fn(r.v, segment)
                 ELSE [v |-> r.v, ret |-> FALSE, segment |-> segment]} :
       \E s2 \in {IF q.ret
                  THEN process_speech_segment([s1 EXCEPT !.vad = q.v], q.segment, now)
                  ELSE [s1 EXCEPT !.vad = q.v]} :
       \E s3 \in {IF g.ret
                  THEN [s2 EXCEPT !.last_speech_end_time =
                                      IF ~r.result.is_speech /\ s2.last_was_speaking
                                      THEN now ELSE @,
                                  !.last_was_speaking = r.result.is_speech]
                  ELSE s2} :
       \E s4 \in {IF s1.session_active THEN check_missed_opportunity(s3, now)
                  ELSE s3} :
          /\ SetSysState(s4)
          /\ audio_buffer' = b1.buf
          /\ write_index' = b1.wi
          /\ read_index' = g.ri
          /\ current_level' = IF s1.is_running /\ k > 0 THEN e ELSE current_level
          /\ frame' = g.frame
          /\ got_frame' = g.ret
          /\ vad_frame' = IF g.ret THEN f ELSE vad_frame
          /\ vad_result' = r.result
          /\ segment' = q.segment
          /\ got_segment' = q.ret
    /\ op' = "loop"
    /\ UNCHANGED <<pushed, out, overflowed, pitchVars>>

(* SessionCtrlCallbacks::onWrite with "start"/"1" or "stop"/"0": the       *)
(* connected client writes the session-control characteristic.             *)
session_control(start) ==
    /\ device_connected
    /\ \E s \in {on_session_control(SysState, start, now_ms)} : SetSysState(s)
    /\ op' = IF start THEN "start" ELSE "stop"
    /\ UNCHANGED <<audio_buffer, write_index, read_index, current_level, frame,
                   got_frame, pushed, out, overflowed, now_ms, vadCallerVars,
                   pitchVars>>

(* ServerCallbacks::onConnect / onDisconnect.                               *)
onConnect ==
    /\ ~device_connected
    /\ device_connected' = TRUE
    /\ op' = "onConnect"
    /\ UNCHANGED <<ringVars, now_ms, vadVars, vadCallerVars, mainVars,
                   old_device_connected, logVars, pitchVars>>

onDisconnect ==
    /\ device_connected
    /\ device_connected' = FALSE
    /\ op' = "onDisconnect"
    /\ UNCHANGED <<ringVars, now_ms, vadVars, vadCallerVars, mainVars,
                   old_device_connected, logVars, pitchVars>>

(* ---- one session: the turn-taking timeline ---------------------------- *)

(* A client connected, loop() saw the connection, and the client's start   *)
(* command arrived, all at BootTime.  From there the iterations of loop()  *)
(* that matter are modelled, dt ms apart, with or without a frame to       *)
(* process, for MaxTurnTime ms: an iteration that finds no frame and does  *)
(* not fire the missed-opportunity check changes nothing, so the ones in   *)
(* between are left out.  Two steps make 3000 ms or 3001 ms, on and just   *)
(* above the response threshold.                                           *)
MaxTurnTime == 9006
TurnSteps == {1500, 1501}

SessionStarted ==
    on_session_control(
        ble_process([SetupState EXCEPT !.device_connected = TRUE], BootTime),
        TRUE, BootTime)

TurnInit ==
    /\ CallerInit
    /\ SysStateIs(SessionStarted)

TurnNext ==
    \E dt \in TurnSteps, k \in {0, AUDIO_FRAME_SAMPLES}, e \in LoopEnergies :
        /\ now_ms + dt <= BootTime + MaxTurnTime
        /\ loop(dt, k, e, 200)

Spec == TurnInit /\ [][TurnNext]_vars

(* ---- one session: the missed-opportunity timeline ---------------------- *)

(* The same session, watched for MaxMissedTime ms with iterations of       *)
(* loop() 1000 ms or 2500 ms apart: the silence after a segment closed     *)
(* comes to 4500 ms, to exactly 5000 ms and beyond, and iterations follow  *)
(* the one that reports the missed opportunity.                            *)
MaxMissedTime == 8500
MissedSteps == {1000, 2500}

MissedInit ==
    /\ CallerInit
    /\ SysStateIs(SessionStarted)

MissedNext ==
    \E dt \in MissedSteps, k \in {0, AUDIO_FRAME_SAMPLES}, e \in LoopEnergies :
        /\ now_ms + dt <= BootTime + MaxMissedTime
        /\ loop(dt, k, e, 200)

SpecMissed == MissedInit /\ [][MissedNext]_vars

(* ---- one session: a burst too short to be published ------------------- *)

(* The same session, watched for MaxBurstTime ms with iterations of loop() *)
(* 2500 ms apart, except that the iteration after one that reported the    *)
(* onset of speech may come BurstStep ms later with a quiet frame: the     *)
(* burst it closes lasted less than VAD_MIN_SPEECH_MS.  A segment, the     *)
(* burst and 5000 ms of silence after it fit in.                           *)
MaxBurstTime == 15100
BurstSteps == {2500}
BurstStep == 50

burst_end ==
    /\ now_ms + BurstStep <= BootTime + MaxBurstTime
    /\ got_frame
    /\ vad_result.state = "Speech"
    /\ vad_result.speech_duration_ms = 0
    /\ loop(BurstStep, AUDIO_FRAME_SAMPLES, 10000, 200)

BurstInit ==
    /\ CallerInit
    /\ SysStateIs(SessionStarted)

BurstNext ==
    \/ \E dt \in BurstSteps, k \in {0, AUDIO_FRAME_SAMPLES}, e \in LoopEnergies :
          /\ now_ms + dt <= BootTime + MaxBurstTime
          /\ loop(dt, k, e, 200)
    \/ burst_end

SpecBurst == BurstInit /\ [][BurstNext]_vars

(* ---- sessions: start, stop, connect, disconnect ----------------------- *)

(* The firmware from the end of setup(), no client connected, for          *)
(* MaxSessionTime ms: iterations of loop() 150 ms apart, whose             *)
(* hardware read delivers nothing, one frame or a full DMA block, and      *)
(* between them the transport's callbacks: a client connects, disconnects, *)
(* writes start or stop.  At most MaxSessions sessions are started.        *)
MaxSessionTime == 600
MaxSessions == 2
SessionSteps == {150}

SessionInit ==
    /\ CallerInit
    /\ SysStateIs(SetupState)

SessionNext ==
    \/ \E dt \in SessionSteps, k \in {0, AUDIO_FRAME_SAMPLES, DMA_BUF_LEN},
          e \in LoopEnergies :
          /\ now_ms + dt <= BootTime + MaxSessionTime
          /\ loop(dt, k, e, 200)
    \/ session_no < MaxSessions /\ session_control(TRUE)
    \/ session_control(FALSE)
    \/ onConnect
    \/ onDisconnect

SpecSession == SessionInit /\ [][SessionNext]_vars

(* ---- sessions long enough for turns ------------------------------------ *)

(* The firmware from the end of setup(), no client connected, for          *)
(* MaxLifeTime ms: iterations of loop() LifeStep ms apart, with or without *)
(* a frame to process, and between them the transport's callbacks.  A      *)
(* session started right away has time for a Serve and the Return that     *)
(* answers it, or for a Serve and 5000 ms of silence after it; a stop, a   *)
(* disconnect and a second session fit in between.                         *)
MaxLifeTime == 9000
LifeStep == 1500

LifeInit ==
    /\ CallerInit
    /\ SysStateIs(SetupState)

LifeNext ==
    \/ \E k \in {0, AUDIO_FRAME_SAMPLES}, e \in LoopEnergies :
          /\ now_ms + LifeStep <= BootTime + MaxLifeTime
          /\ loop(LifeStep, k, e, 200)
    \/ session_no < MaxSessions /\ session_control(TRUE)
    \/ session_control(FALSE)
    \/ onConnect
    \/ onDisconnect

SpecLife == LifeInit /\ [][LifeNext]_vars

(* ---- a stop command during an iteration of loop() ----------------------- *)

(* SessionCtrlCallbacks::onWrite runs on the transport's task and calls     *)
(* on_session_control directly, so a stop can take effect between two       *)
(* statements of loop(), which tests session_active once, at line 152.      *)
(* The places modelled: after vad_process and before vad_get_segment and    *)
(* process_speech_segment ("segment"), and after the frame is dealt with    *)
(* and before check_missed_opportunity ("missed").                          *)
StopPoints == {"segment", "missed"}

(* One iteration of loop() during which the connected client's stop         *)
(* command is carried out at the place `at'; the rest as in loop().         *)
loop_stop_between(dt, k, e, z, at) ==
    /\ device_connected
    /\ now_ms' = now_ms + dt
    /\ \E now \in {now_ms + dt} :
       \E s1 \in {ble_process(SysState, now)} :
       \E b1 \in {IF s1.is_running /\ k > 0
                  THEN copy_to_circular(
                           [buf |-> audio_buffer, wi |-> write_index,
                            ri |-> read_index],
                           [i \in 1..k |-> s1.session_no])
                  ELSE [buf |-> audio_buffer, wi |-> write_index,
                        ri |-> read_index]} :
       \E g \in {IF s1.session_active
                 THEN audio_get_frame_fn(b1.buf, b1.wi, b1.ri, frame, now)
                 ELSE [ret |-> FALSE, frame |-> frame, ri |-> b1.ri]} :
       \E f \in {[timestamp_ms |-> now, valid |-> TRUE, energy |-> e, zcr |-> z]} :
       \E r \in {IF g.ret THEN vad_process_fn(s1.vad, f)
                 ELSE [v |-> s1.vad, result |-> vad_result]} :
       \E t1 \in {IF at = "segment" THEN on_session_control(s1, FALSE, now)
                  ELSE s1} :
       \E q \in {IF g.ret THEN vad_get_segment_fn(r.v, segment)
                 ELSE [v |-> r.v, ret |-> FALSE, segment |-> segment]} :
       \E s2 \in {IF q.ret
                  THEN process_speech_segment([t1 EXCEPT !.vad = q.v], q.segment, now)
                  ELSE [t1 EXCEPT !.vad = q.v]} :
       \E s3 \in {IF g.ret
                  THEN [s2 EXCEPT !.last_speech_end_time =
                                      IF ~r.result.is_speech /\ s2.last_was_speaking
                                      THEN now ELSE @,
                                  !.last_was_speaking = r.result.is_speech]
                  ELSE s2} :
       \E t3 \in {IF at = "missed" THEN on_session_control(s3, FALSE, now)
                  ELSE s3} :
       \E s4 \in {IF s1.session_active THEN check_missed_opportunity(t3, now)
                  ELSE t3} :
          /\ SetSysState(s4)
          /\ audio_buffer' = b1.buf
          /\ write_index' = b1.wi
          /\ read_index' = g.ri
          /\ current_level' = IF s1.is_running /\ k > 0 THEN e ELSE current_level
          /\ frame' = g.frame
          /\ got_frame' = g.ret
          /\ vad_frame' = IF g.ret THEN f ELSE vad_frame
          /\ vad_result' = r.result
          /\ segment' = q.segment
          /\ got_segment' = q.ret
    /\ op' = "loop_stop"
    /\ UNCHANGED <<pushed, out, overflowed, pitchVars>>

(* The firmware as in SpecLife, and stop commands that arrive during an     *)
(* iteration of loop() as well as between two.                              *)
AsyncNext ==
    \/ \E k \in {0, AUDIO_FRAME_SAMPLES}, e \in LoopEnergies :
          /\ now_ms + LifeStep <= BootTime + MaxLifeTime
          /\ loop(LifeStep, k, e, 200)
    \/ \E k \in {0, AUDIO_FRAME_SAMPLES}, e \in LoopEnergies, at \in StopPoints :
          /\ now_ms + LifeStep <= BootTime + MaxLifeTime
          /\ loop_stop_between(LifeStep, k, e, 200, at)
    \/ session_no < MaxSessions /\ session_control(TRUE)
    \/ session_control(FALSE)
    \/ onConnect
    \/ onDisconnect

SpecAsync == LifeInit /\ [][AsyncNext]_vars

----------------------------------------------------------------------------
(* Properties of the detector, checked under SpecVAD.                        *)

(* C1 -- VAD hangover law.  When speech resumes in Hangover less than       *)
(* 200 ms after the interruption began, the segment goes on: its start_ms  *)
(* stays the onset that preceded the interruption, and no segment ending   *)
(* at the interruption is waiting to be fetched by vad_get_segment.         *)
C1_HangoverKeepsSegment ==
    [][(/\ op' = "vad_process"
        /\ current_state = "Hangover"
        /\ current_state' = "Speech"
        /\ U32Sub(now_ms', state_start_time) < VAD_HANGOVER_MS)
       => /\ pending_segment'.start_ms = pending_segment.start_ms
          /\ ~(segment_ready' /\ pending_segment'.end_ms = state_start_time)]_vars

(* C2 -- VAD segment duration law.  Every segment vad_get_segment returns  *)
(* has duration_ms = end_ms - start_ms and duration_ms >= 100, whatever    *)
(* the interleaving of vad_process and vad_get_segment calls.              *)
C2_SegmentDurationLaw ==
    got_segment =>
        /\ segment.duration_ms = U32Sub(segment.end_ms, segment.start_ms)
        /\ segment.duration_ms >= VAD_MIN_SPEECH_MS

(* C3 -- A segment is closed exactly on Hangover -> Silence: a call of      *)
(* vad_process finalizes end time, duration or mean energy, or makes a     *)
(* segment retrievable, only when it takes that transition; and the        *)
(* transition is taken by the first non-speech frame processed in Hangover *)
(* whose timestamp is at least 200 ms after Hangover was entered.          *)
C3_ClosedOnHangoverExpiry ==
    [][op' = "vad_process" =>
          /\ (\/ pending_segment'.end_ms # pending_segment.end_ms
              \/ pending_segment'.duration_ms # pending_segment.duration_ms
              \/ pending_segment'.avg_energy # pending_segment.avg_energy
              \/ (segment_ready' /\ ~segment_ready))
             => (current_state = "Hangover" /\ current_state' = "Silence")
          /\ (/\ current_state = "Hangover"
              /\ vad_frame'.valid
              /\ current_state' # "Speech"
              /\ U32Sub(now_ms', state_start_time) >= VAD_HANGOVER_MS)
             => current_state' = "Silence"]_vars

----------------------------------------------------------------------------
(* Properties of the ring buffer, checked under SpecRing.                    *)

(* The unread samples are the newest ones pushed, oldest first.            *)
UnreadIsNewest ==
    \A i \in 0..(audio_frames_available - 1) :
        audio_buffer[(read_index + i) % AUDIO_BUFFER_SIZE]
            = pushed - audio_frames_available + 1 + i

(* C4 -- audio_frames_available() is the number of whole frames buffered   *)
(* and never exceeds capacity / frameLength.                               *)
C4_FramesAvailableBound ==
    /\ audio_frames_available <= AUDIO_BUFFER_SIZE \div AUDIO_FRAME_SAMPLES
    /\ ~overflowed =>
          audio_frames_available = (pushed - Len(out)) \div AUDIO_FRAME_SAMPLES

(* C5 -- Overwrite-oldest law.  A push of k samples leaves                   *)
(* min(unread + k, capacity - 1) samples unread, advances the read cursor  *)
(* by exactly the number of samples that did not fit, and the unread       *)
(* content is then the most recently pushed samples in push order.         *)
C5_OverwriteOldest ==
    [][op' = "audio_process" =>
          LET k    == pushed' - pushed
              kept == Min(audio_frames_available + k, AUDIO_BUFFER_SIZE - 1)
          IN  /\ audio_frames_available' = kept
              /\ read_index' = (read_index + (audio_frames_available + k - kept))
                                   % AUDIO_BUFFER_SIZE
              /\ write_index' = (write_index + k) % AUDIO_BUFFER_SIZE
              /\ UnreadIsNewest']_vars

C5_Witness ==
    /\ op = "audio_process"
    /\ overflowed
    /\ audio_frames_available = AUDIO_BUFFER_SIZE - 1
    /\ Len(out) > 0

(* C6 -- Frame extraction preserves order.  As long as no overflow          *)
(* occurred, the concatenation of the frames returned is a prefix of the   *)
(* pushed stream: sample i of the output is sample i pushed, so none is    *)
(* duplicated, skipped or reordered.                                       *)
C6_FramesArePrefixOfStream ==
    ~overflowed =>
        /\ Len(out) <= pushed
        /\ \A i \in 1..Len(out) : out[i] = i

C6_Witness ==
    /\ ~overflowed
    /\ Len(out) >= 3 * AUDIO_FRAME_SAMPLES
    /\ audio_frames_available > 0

(* C7 -- With at least one frame's worth of unread samples,                 *)
(* audio_get_frame returns true with valid = true and the oldest unread    *)
(* samples in order, advances the read cursor by one frame length modulo   *)
(* the capacity, and leaves the write cursor and the buffer unchanged.     *)
C7_GetFrameReady ==
    [][(op' = "audio_get_frame" /\ audio_frames_available >= AUDIO_FRAME_SAMPLES)
       => /\ got_frame'
          /\ frame'.valid
          /\ frame'.samples = [i \in 1..AUDIO_FRAME_SAMPLES |->
                                 pushed - audio_frames_available + i]
          /\ read_index' = (read_index + AUDIO_FRAME_SAMPLES) % AUDIO_BUFFER_SIZE
          /\ write_index' = write_index
          /\ audio_buffer' = audio_buffer]_vars

C7_Witness ==
    /\ op = "audio_get_frame"
    /\ got_frame
    /\ frame.valid
    /\ Len(out) >= 2 * AUDIO_FRAME_SAMPLES
    /\ read_index < AUDIO_FRAME_SAMPLES

(* C8 -- With fewer unread samples than a frame, audio_get_frame returns    *)
(* false, clears the frame's valid flag, leaves both cursors unchanged and *)
(* hands out nothing.                                                      *)
C8_GetFrameNotReady ==
    [][(op' = "audio_get_frame" /\ audio_frames_available < AUDIO_FRAME_SAMPLES)
       => /\ ~got_frame'
          /\ ~frame'.valid
          /\ read_index' = read_index
          /\ write_index' = write_index
          /\ out' = out]_vars

C8_Witness ==
    /\ op = "audio_get_frame"
    /\ ~got_frame
    /\ ~frame.valid
    /\ audio_frames_available > 0
    /\ Len(out) > 0

----------------------------------------------------------------------------
(* Properties of the turn-taking logic, checked under Spec.                  *)

(* The events a step hands to ble_send_event.                              *)
NewEvents == SubSeq(events', Len(events) + 1, Len(events'))

(* C9 -- Whenever a segment classified Child closes, exactly one Serve is  *)
(* handed to the transport, the segment's end time becomes the child end   *)
(* time, and waiting-for-response is true afterwards, whether or not a     *)
(* Serve was pending already.                                              *)
C9_ChildSegmentServes ==
    [][(/\ op' = "loop"
        /\ got_segment'
        /\ segment'.avg_energy < CHILD_ENERGY_LIMIT)
       => /\ SubSeq(events', 1, Len(events)) = events
          /\ Cardinality({i \in 1..Len(NewEvents) : NewEvents[i].type = "Serve"}) = 1
          /\ child_speech_time' = segment'.end_ms
          /\ waiting_for_response']_vars

C9_Witness ==
    /\ op = "loop"
    /\ got_segment
    /\ segment.avg_energy < CHILD_ENERGY_LIMIT
    /\ Len(events) >= 2
    /\ events[Len(events)].type = "Serve"
    /\ events[Len(events) - 1].type = "Serve"
    /\ child_speech_time = segment.end_ms
    /\ child_speech_time > BootTime + 2 * 1501

(* C10 -- A step hands a Return to the transport if and only if it closes  *)
(* a segment classified Adult while waiting-for-response is set and        *)
(* segment.start - child end time is at most 3000 ms; it is then the only  *)
(* Return of the step and carries exactly that latency.                    *)
C10_ReturnIffWithinThreshold ==
    [][LET latency == U32Sub(segment'.start_ms, child_speech_time)
           answered ==
               /\ op' = "loop"
               /\ got_segment'
               /\ segment'.avg_energy >= CHILD_ENERGY_LIMIT
               /\ waiting_for_response
               /\ latency <= RESPONSE_THRESHOLD_MS
           returns == {i \in 1..Len(NewEvents) : NewEvents[i].type = "Return"}
       IN  /\ SubSeq(events', 1, Len(events)) = events
           /\ answered =>
                 /\ Cardinality(returns) = 1
                 /\ \A i \in returns : NewEvents[i].response_latency = latency
           /\ ~answered => returns = {}]_vars

C10_Witness ==
    /\ op = "loop"
    /\ got_segment
    /\ segment.avg_energy >= CHILD_ENERGY_LIMIT
    /\ Len(events) >= 2
    /\ events[Len(events)].type = "Return"
    /\ events[Len(events)].response_latency = RESPONSE_THRESHOLD_MS
    /\ events[Len(events) - 1].type = "Serve"
    /\ ~waiting_for_response

(* C11 -- When a segment classified Adult is processed while               *)
(* waiting-for-response is set, waiting-for-response is false afterwards,  *)
(* within the response threshold or beyond it; beyond it the step hands no *)
(* event to the transport.                                                 *)
C11_AdultClearsWaiting ==
    [][(/\ op' = "loop"
        /\ got_segment'
        /\ segment'.avg_energy >= CHILD_ENERGY_LIMIT
        /\ waiting_for_response)
       => /\ ~waiting_for_response'
          /\ ~last_was_child'
          /\ U32Sub(segment'.start_ms, child_speech_time) > RESPONSE_THRESHOLD_MS
                => events' = events]_vars

(* An Adult segment that began 3001 ms after the child's end: the Serve is *)
(* still the last event, and nothing waits any more.                       *)
C11_Witness ==
    /\ op = "loop"
    /\ got_segment
    /\ segment.avg_energy >= CHILD_ENERGY_LIMIT
    /\ U32Sub(segment.start_ms, child_speech_time) = RESPONSE_THRESHOLD_MS + 1
    /\ Len(events) = 1
    /\ events[1].type = "Serve"
    /\ ~waiting_for_response
    /\ ~last_was_child

----------------------------------------------------------------------------
(* Properties of the missed-opportunity check, checked under SpecMissed.    *)

(* Time since the last speech activity as the detector has it after a      *)
(* step: the time since Speech was last left, while the detector rests in  *)
(* Silence after some speech; none while speech is going on.               *)
SilenceMeasured ==
    IF current_state = "Silence" /\ last_speech_time # 0
    THEN U32Sub(now_ms, last_speech_time) ELSE 0

(* The MissedOpportunity events a step hands to the transport.             *)
NewMissed == {i \in 1..Len(NewEvents) : NewEvents[i].type = "MissedOpportunity"}

(* A step fetches a segment classified Adult.                              *)
AdultClosed == got_segment' /\ segment'.avg_energy >= CHILD_ENERGY_LIMIT

(* C12 -- After a Serve with no Adult segment since, the iteration of      *)
(* loop() on which the measured silence has reached 5000 ms hands one      *)
(* MissedOpportunity to the transport, carrying that silence (at least     *)
(* 5000 ms), and clears waiting-for-response; every MissedOpportunity is   *)
(* preceded by a Serve with no other MissedOpportunity in between, so it   *)
(* is not repeated on later iterations.                                    *)
C12_MissedOncePerServe ==
    [][/\ SubSeq(events', 1, Len(events)) = events
       /\ (/\ op' = "loop"
           /\ waiting_for_response
           /\ ~AdultClosed
           /\ SilenceMeasured' >= MISSED_OPP_THRESHOLD_MS)
          => /\ Cardinality(NewMissed) = 1
             /\ \A i \in NewMissed : NewEvents[i].silence_duration = SilenceMeasured'
             /\ ~waiting_for_response'
       /\ \A i \in NewMissed :
             /\ NewEvents[i].silence_duration >= MISSED_OPP_THRESHOLD_MS
             /\ waiting_for_response
             /\ ~waiting_for_response'
       /\ \A i \in 1..Len(events') :
             events'[i].type = "MissedOpportunity"
             => \E j \in 1..(i - 1) :
                   /\ events'[j].type = "Serve"
                   /\ \A l \in (j + 1)..(i - 1) :
                         events'[l].type # "MissedOpportunity"]_vars

(* A missed opportunity was reported after exactly 5000 ms of silence, and *)
(* a later iteration, with a silence of 6000 ms and more, added nothing.   *)
C12_Witness ==
    /\ op = "loop"
    /\ Len(events) = 2
    /\ events[1].type = "Serve"
    /\ events[2].type = "MissedOpportunity"
    /\ events[2].silence_duration = MISSED_OPP_THRESHOLD_MS
    /\ SilenceMeasured >= MISSED_OPP_THRESHOLD_MS + 1000
    /\ ~waiting_for_response

(* C13 -- In an active session, an iteration of loop() that has            *)
(* waiting-for-response set and fetches no Adult segment hands a           *)
(* MissedOpportunity to the transport exactly when 5000 ms have elapsed    *)
(* since the last speech activity, hence on the first such iteration,      *)
(* whether or not it had a frame to process or a segment closed.           *)
C13_MissedCheckEveryTick ==
    [][(/\ op' = "loop"
        /\ session_active'
        /\ waiting_for_response
        /\ ~AdultClosed)
       => (NewMissed # {} <=> SilenceMeasured' >= MISSED_OPP_THRESHOLD_MS)]_vars

(* The missed opportunity was reported by an iteration that found no frame *)
(* in the buffer, right when the silence came to 5000 ms.                  *)
C13_Witness ==
    /\ op = "loop"
    /\ session_active
    /\ ~got_frame
    /\ ~got_segment
    /\ Len(events) >= 2
    /\ events[Len(events)].type = "MissedOpportunity"
    /\ events[Len(events)].silence_duration = MISSED_OPP_THRESHOLD_MS
    /\ SilenceMeasured = MISSED_OPP_THRESHOLD_MS
    /\ ~waiting_for_response

----------------------------------------------------------------------------
(* Properties of the session lifecycle, checked under SpecSession.          *)

(* C14 -- A start command that begins a session leaves the detector in     *)
(* Silence with no segment ready, accumulators and timestamps cleared and  *)
(* the noise floor at its initial value, waiting-for-response false, the   *)
(* event count 0 and capture running, whatever an earlier session did.     *)
C14_StartResetsEverything ==
    [][(op' = "start" /\ ~session_active /\ session_active')
       => /\ current_state' = "Silence"
          /\ ~segment_ready'
          /\ segment_energy_sum' = 0
          /\ segment_frame_count' = 0
          /\ last_speech_time' = 0
          /\ speech_start_time' = 0
          /\ noise_floor' = NOISE_FLOOR_INIT
          /\ ~waiting_for_response'
          /\ session_event_count' = 0
          /\ is_running']_vars

(* C15 -- While a session is stopped with the detector left in Speech or   *)
(* Hangover, the segment that was open at the stop has not been finalized  *)
(* (no end time at or after its start) and is not the segment that         *)
(* vad_get_segment handed out.                                             *)
C15_OpenSegmentDiscarded ==
    (~session_active /\ IsSpeaking(current_state))
    => /\ pending_segment.end_ms < pending_segment.start_ms
       /\ segment.start_ms # pending_segment.start_ms

(* C16 -- Every sample of a frame that audio_get_frame returns in a        *)
(* session was captured in that session: samples left unread at a stop     *)
(* never come back.                                                        *)
C16_StaleSamplesAbandoned ==
    (op = "loop" /\ session_active /\ got_frame)
    => \A i \in 1..AUDIO_FRAME_SAMPLES : frame.samples[i] = session_no

----------------------------------------------------------------------------
(* Further properties of the detector, checked under SpecVAD.               *)

(* C17 -- The detector starts in Silence; a vad_process call keeps the     *)
(* state or moves it along Silence -> Speech, Speech -> Hangover,          *)
(* Hangover -> Speech or Hangover -> Silence, and Silence is otherwise     *)
(* reached only by vad_reset (vad_init being the initial state).           *)
C17_StateTransitions ==
    /\ current_state = "Silence"
    /\ [][/\ op' = "vad_process"
             => \/ current_state' = current_state
                \/ <<current_state, current_state'>> \in
                       {<<"Silence", "Speech">>, <<"Speech", "Hangover">>,
                        <<"Hangover", "Speech">>, <<"Hangover", "Silence">>}
          /\ (current_state # "Silence" /\ current_state' = "Silence")
             => \/ op' = "vad_process" /\ current_state = "Hangover"
                \/ op' = "vad_reset"]_vars

(* A vad_process call has just taken the detector from Hangover back to    *)
(* Silence: Silence was entered at the time of the frame, after speech.    *)
C17_Witness ==
    /\ op = "vad_process"
    /\ vad_frame.valid
    /\ current_state = "Silence"
    /\ state_start_time = now_ms
    /\ last_speech_time # 0
    /\ now_ms - last_speech_time > VAD_HANGOVER_MS

(* C18 -- One slot holds the closed segment.  vad_get_segment returns true *)
(* exactly when the slot is full, hands out its content and empties it, so *)
(* a published segment is returned at most once; the slot is filled only   *)
(* by a vad_process call that closes a segment of 100 ms or more, and such *)
(* a close puts the closing segment's own start, end, duration and mean    *)
(* energy into the slot whether or not an earlier segment still waits      *)
(* there.                                                                  *)
C18_SingleSlotLastClosedWins ==
    [][/\ op' = "vad_get_segment"
          => IF segment_ready
             THEN got_segment' /\ segment' = pending_segment /\ ~segment_ready'
             ELSE ~got_segment' /\ segment' = segment /\ ~segment_ready'
       /\ (~segment_ready /\ segment_ready')
          => /\ op' = "vad_process"
             /\ current_state = "Speech"
             /\ current_state' # "Speech"
       /\ (/\ op' = "vad_process"
           /\ current_state = "Speech"
           /\ current_state' # "Speech"
           /\ now_ms' - speech_start_time >= VAD_MIN_SPEECH_MS)
          => /\ segment_ready'
             /\ overwritten' = overwritten + (IF segment_ready THEN 1 ELSE 0)
             /\ pending_segment' =
                   [start_ms |-> speech_start_time, end_ms |-> now_ms',
                    duration_ms |-> now_ms' - speech_start_time,
                    avg_energy |-> (segment_energy_sum + vad_frame'.energy)
                                      \div (segment_frame_count + 1)]]_vars

(* A segment of 100 ms or more closed while an earlier one was waiting in  *)
(* the slot, and vad_get_segment has just returned the later one.          *)
C18_Witness ==
    /\ op = "vad_get_segment"
    /\ got_segment
    /\ overwritten = 1
    /\ ~segment_ready
    /\ segment = pending_segment
    /\ segment.start_ms = speech_start_time
    /\ segment.end_ms = last_speech_time
    /\ segment.duration_ms >= VAD_MIN_SPEECH_MS

(* C20 -- Every vad_process call on a valid frame returns the resulting    *)
(* state with is_speech true exactly in Speech and Hangover; a call on a   *)
(* null frame or a frame marked invalid changes nothing in the detector    *)
(* and returns is_speech false.                                            *)
C20_VadNeverFails ==
    [][op' = "vad_process"
       => IF vad_frame'.valid
          THEN /\ vad_result'.state = current_state'
               /\ current_state' \in {"Silence", "Speech", "Hangover"}
               /\ vad_result'.is_speech = IsSpeaking(current_state')
          ELSE /\ UNCHANGED vadVars
               /\ ~vad_result'.is_speech]_vars

(* A frame marked invalid arrived while the detector was in Speech with a  *)
(* segment under way.                                                      *)
C20_Witness ==
    /\ op = "vad_process"
    /\ ~vad_frame.valid
    /\ current_state = "Speech"
    /\ segment_frame_count > 0
    /\ ~vad_result.is_speech
    /\ vad_result.state = "Speech"

----------------------------------------------------------------------------
(* A further property of the ring buffer, checked under SpecRing.           *)

(* C19 -- An audio_process call that finds capture stopped, or whose       *)
(* hardware read fails or returns nothing, leaves the buffer, both cursors *)
(* and the cached level as they were, and the next successful read pushes  *)
(* its samples at the write cursor as usual.                               *)
C19_CaptureFailureHarmless ==
    [][/\ op' = "audio_process_skip"
          => UNCHANGED <<audio_buffer, write_index, read_index, current_level,
                         is_running>>
       /\ (op = "audio_process_skip" /\ op' = "audio_process")
          => /\ pushed' > pushed
             /\ write_index' = (write_index + (pushed' - pushed)) % AUDIO_BUFFER_SIZE
             /\ \A i \in 1..Min(pushed' - pushed, AUDIO_BUFFER_SIZE) :
                   audio_buffer'[(write_index' - i) % AUDIO_BUFFER_SIZE]
                       = pushed' - i + 1]_vars

(* A read failed while capture was running with samples waiting and a      *)
(* level cached.                                                           *)
C19_Witness ==
    /\ op = "audio_process_skip"
    /\ is_running
    /\ audio_frames_available > 0
    /\ current_level > 0
    /\ pushed > AUDIO_BUFFER_SIZE

----------------------------------------------------------------------------
(* Properties of the pitch detector, checked under SpecPitch.               *)

(* C21 -- pitch_classify is a pure threshold on the pitch: Child at 280 Hz *)
(* and above (280 included), Adult strictly between 0 and 280 Hz, Unknown  *)
(* for a pitch of 0 or less; every valid estimate is labelled by the same  *)
(* threshold.                                                              *)
C21_ClassifyThreshold ==
    /\ op = "pitch_classify"
       => pitch_result.speaker =
             IF pitch_in.pitch_hz >= 28000 THEN "Child"
             ELSE IF pitch_in.pitch_hz > 0 THEN "Adult"
             ELSE "Unknown"
    /\ (op \in {"pitch_estimate", "pitch_estimate_robust"} /\ pitch_result.valid)
       => pitch_result.speaker =
             IF pitch_result.pitch_hz >= 28000 THEN "Child" ELSE "Adult"

(* pitch_classify was called with exactly 280 Hz and answered Child.       *)
C21_Witness ==
    /\ op = "pitch_classify"
    /\ pitch_in.pitch_hz = 28000
    /\ pitch_result.speaker = "Child"

(* C22 -- Every failure path of pitch_estimate and pitch_estimate_robust   *)
(* (too few samples, RMS below the floor, no lag accepted, non-positive    *)
(* refined lag, no surviving window) returns valid = false, pitch_hz = 0,  *)
(* confidence = 0 and speaker = Unknown; a result with valid = true has    *)
(* pitch_hz > 0 and speaker Adult or Child.                                *)
C22_FailuresAreExplicit ==
    op \in {"pitch_estimate", "pitch_estimate_robust"}
    => /\ pitch_path \in {"short", "quiet", "unvoiced", "degenerate", "no_window",
                          "ok", "median"}
       /\ pitch_path \in {"short", "quiet", "unvoiced", "degenerate", "no_window"}
          => /\ pitch_result.valid = FALSE
             /\ pitch_result.pitch_hz = 0
             /\ pitch_result.confidence = 0
             /\ pitch_result.speaker = "Unknown"
       /\ pitch_path \in {"ok", "median"} <=> pitch_result.valid
       /\ pitch_result.valid
          => /\ pitch_result.pitch_hz > 0
             /\ pitch_result.speaker \in {"Adult", "Child"}

(* A loud decaying resonance at 16 kHz passed the length and RMS checks, a *)
(* lag was accepted, and the interpolation moved it below zero.            *)
C22_Witness ==
    /\ op = "pitch_estimate"
    /\ pitch_path = "degenerate"
    /\ pitch_in.sig.kind = "decay"
    /\ pitch_in.count >= 2 * MaxLag(pitch_in.sample_rate)
    /\ ~pitch_result.valid

\* the energy of the window handed to the last call
WindowEnergy ==
    SumSquares(Samples(pitch_in.sig, pitch_in.sample_rate, pitch_in.count),
               0, pitch_in.count - 1)

(* C23 -- pitch_estimate on a window whose samples are all zero, or whose  *)
(* RMS amplitude is below 0.01 of full scale (mean square below 327.68^2), *)
(* returns valid = false, and returns from the length check or the RMS     *)
(* check, before any YIN step has run.                                     *)
C23_SilenceRejected ==
    (/\ op = "pitch_estimate"
     /\ \/ pitch_in.sig.kind = "zero"
        \/ WindowEnergy \div pitch_in.count < 107374)
    => /\ ~pitch_result.valid
       /\ pitch_path \in {"short", "quiet"}

(* A 200 Hz tone of amplitude 450 (RMS 0.0097 of full scale) in a window   *)
(* long enough at 16 kHz was rejected at the RMS check.                    *)
C23_Witness ==
    /\ op = "pitch_estimate"
    /\ pitch_in.sig.kind = "tone"
    /\ pitch_in.sig.amp = 450
    /\ pitch_in.sig.hz = 200
    /\ pitch_in.sample_rate = AUDIO_SAMPLE_RATE
    /\ pitch_in.count = 2 * MaxLag(AUDIO_SAMPLE_RATE)
    /\ pitch_path = "quiet"
    /\ ~pitch_result.valid

\* the last call was pitch_estimate on a pure tone whose period lies in the
\* lag range, in a window of at least twice the longest lag
ToneInRange ==
    /\ op = "pitch_estimate"
    /\ pitch_in.sig.kind = "tone"
    /\ (pitch_in.sample_rate \div PITCH_MAX_HZ) * pitch_in.sig.hz <= pitch_in.sample_rate
    /\ pitch_in.sample_rate <= MaxLag(pitch_in.sample_rate) * pitch_in.sig.hz
    /\ pitch_in.count >= 2 * MaxLag(pitch_in.sample_rate)

\* the result is valid and within 2% of the frequency of the tone
RoundTrip ==
    /\ pitch_result.valid
    /\ (pitch_result.pitch_hz - pitch_in.sig.hz * 100) * 50 <= pitch_in.sig.hz * 100
    /\ (pitch_in.sig.hz * 100 - pitch_result.pitch_hz) * 50 <= pitch_in.sig.hz * 100

(* C24 -- For a pure tone of frequency f whose RMS amplitude is at least   *)
(* 0.01 of full scale, sampled at the firmware's 16 kHz, with 16000 / f    *)
(* within [tau_min, tau_max] and a window of at least 2 x tau_max samples, *)
(* pitch_estimate returns valid = true and a frequency within 2% of f.     *)
C24_RoundTrip ==
    (/\ ToneInRange
     /\ pitch_in.sample_rate = AUDIO_SAMPLE_RATE
     /\ ~TooQuiet(WindowEnergy, pitch_in.count))
    => RoundTrip

(* A 499 Hz tone of amplitude 500 at 16 kHz, in a window of exactly twice  *)
(* the longest lag, came back valid within 2%.                             *)
C24_Witness ==
    /\ ToneInRange
    /\ pitch_in.sample_rate = AUDIO_SAMPLE_RATE
    /\ pitch_in.sig.hz = 499
    /\ pitch_in.sig.amp = 500
    /\ pitch_in.count = 2 * MaxLag(AUDIO_SAMPLE_RATE)
    /\ pitch_path = "ok"
    /\ RoundTrip

(* C24 as stated, for every rate and amplitude: refuted by a quiet tone,   *)
(* rejected at the RMS check, and by a 75 Hz tone at 3000 Hz, whose period *)
(* of 40 samples is tau_max itself, one more than the longest lag tried.   *)
C24_AnyTone == ToneInRange => RoundTrip

----------------------------------------------------------------------------
(* A further property of the events, checked under Spec.                    *)

----------------------------------------------------------------------------
(* A further property of the ring buffer, checked under SpecRing.           *)

\* the samples pushed that were neither handed out nor discarded are the
\* ones between the cursors, in order
UnreadBetweenCursors ==
    /\ \A i \in 0..(audio_frames_available - 1) :
          audio_buffer[(read_index + i) % AUDIO_BUFFER_SIZE]
              = pushed - audio_frames_available + 1 + i
    /\ out # <<>> => out[Len(out)] <= pushed - audio_frames_available

(* C26 -- In every reachable state both cursors lie in [0, C), the number  *)
(* of unread samples is (W - R) mod C and at most C - 1, and W = R only    *)
(* when no unread sample is buffered: every sample pushed was handed out   *)
(* or nothing was pushed.  A full buffer never reads as an empty one.      *)
C26_RingInvariant ==
    /\ write_index \in 0..(AUDIO_BUFFER_SIZE - 1)
    /\ read_index \in 0..(AUDIO_BUFFER_SIZE - 1)
    /\ audio_frames_available = (write_index - read_index) % AUDIO_BUFFER_SIZE
    /\ audio_frames_available <= AUDIO_BUFFER_SIZE - 1
    /\ UnreadBetweenCursors
    /\ write_index = read_index
       => \/ pushed = 0
          \/ out # <<>> /\ out[Len(out)] = pushed

(* The buffer overflowed and is as full as it gets: C - 1 samples unread,  *)
(* the write cursor wrapped around to just behind the read cursor.         *)
C26_Witness ==
    /\ overflowed
    /\ pushed > AUDIO_BUFFER_SIZE
    /\ audio_frames_available = AUDIO_BUFFER_SIZE - 1
    /\ write_index < read_index
    /\ out # <<>>

----------------------------------------------------------------------------
(* Further properties of the detector, checked under SpecVAD.               *)

(* C27 -- The mean energy of a published segment is the mean over all the  *)
(* frames of the segment: the energy sum and the frame count begin with    *)
(* the frame that opens the segment on Silence to Speech, go on through    *)
(* the frames processed in Hangover, and the mean stored when the segment  *)
(* closes is the sum over the count.                                       *)
C27_MeanOverAllFrames ==
    [][(op' = "vad_process" /\ vad_frame'.valid)
       => /\ (current_state = "Silence" /\ current_state' = "Speech")
             => /\ segment_frame_count' = 1
                /\ segment_energy_sum' = vad_frame'.energy
          /\ (current_state = "Hangover" /\ current_state' = "Hangover")
             => /\ segment_frame_count' = segment_frame_count + 1
                /\ segment_energy_sum' = segment_energy_sum + vad_frame'.energy
          /\ (current_state = "Speech" /\ current_state' = "Speech")
             => /\ segment_frame_count' = segment_frame_count + 1
                /\ segment_energy_sum' = segment_energy_sum + vad_frame'.energy
          /\ (current_state = "Speech" /\ current_state' = "Hangover"
              /\ segment_frame_count' > 0)
             => pending_segment'.avg_energy
                    = segment_energy_sum' \div segment_frame_count']_vars

(* Properties of the adaptive threshold, checked under SpecNoise.           *)

\* C28: the noise floor stays within [0.001, 0.1]; it changes only in a
\* call of vad_process on a valid frame in adaptive mode that finds the
\* detector in Silence (frames met in Speech or Hangover leave it alone);
\* and the threshold a processed frame was judged against is 3 times the
\* noise floor in adaptive mode and the fixed energy threshold otherwise.
C28_AdaptiveThreshold ==
    /\ [](NOISE_FLOOR_MIN <= noise_floor /\ noise_floor <= NOISE_FLOOR_MAX)
    /\ [][noise_floor' # noise_floor
             => /\ op' = "vad_process"
                /\ vad_frame'.valid
                /\ adaptive_enabled
                /\ current_state = "Silence"]_vars
    /\ [][op' = "vad_process"
             => vad_result'.threshold =
                   IF adaptive_enabled' THEN 3 * noise_floor'
                                        ELSE energy_threshold']_vars

\* the talker's loud frame met in Silence with the floor at its upper
\* limit: the frame was judged against 0.3 and opened a segment
C28_Witness ==
    /\ adaptive_enabled
    /\ op = "vad_process"
    /\ vad_frame.energy = FullScaleEnergy
    /\ noise_floor = NOISE_FLOOR_MAX
    /\ vad_result.threshold = 3 * NOISE_FLOOR_MAX
    /\ current_state = "Speech"
    /\ state_start_time = now_ms

(* Properties of the per-frame decision, checked under SpecFrame.           *)

\* C29: a valid frame is taken for speech, which shows as the detector
\* being in Speech once the frame is processed, if and only if its energy
\* is strictly above the threshold it was judged against and, when its
\* zero-crossing rate is below 0.05 or above 0.5, also strictly above 1.5
\* times that threshold.
C29_FrameDecision ==
    [][(op' = "vad_process" /\ vad_frame'.valid)
       => ((current_state' = "Speech")
           <=> /\ vad_frame'.energy > vad_result'.threshold
               /\ (vad_frame'.zcr < 50 \/ vad_frame'.zcr > 500)
                  => 2 * vad_frame'.energy > 3 * vad_result'.threshold)]_vars

\* a frame of energy exactly 1.5 times the fixed threshold whose rate is
\* just above the band was not taken for speech and sent the detector
\* from Speech to Hangover
C29_Witness ==
    /\ ~adaptive_enabled
    /\ op = "vad_process"
    /\ vad_frame.valid
    /\ vad_frame.zcr = 501
    /\ vad_frame.energy = 30000
    /\ vad_result.threshold = VAD_DEFAULT_THRESHOLD
    /\ current_state = "Hangover"
    /\ state_start_time = now_ms

(* Properties of the silence timer, checked under SpecBurst.                *)

\* C30: within a session the time of the last speech activity is set to
\* the current time by every iteration of loop() that takes the detector
\* out of Speech, however short the speech was, and is changed by nothing
\* else; a MissedOpportunity is handed to the transport only with the
\* detector in Silence after some speech, never in Speech or Hangover or
\* before any speech, and it carries the time since Speech was last left,
\* which is at least 5000 ms.
C30_SilenceSinceLastSpeech ==
    /\ [][(op' = "loop" /\ current_state = "Speech" /\ current_state' # "Speech")
          => last_speech_time' = now_ms']_vars
    /\ [][last_speech_time' # last_speech_time
          => (op' = "loop" /\ current_state = "Speech" /\ current_state' # "Speech")]_vars
    /\ [][NewMissed # {}
          => /\ current_state' = "Silence"
             /\ last_speech_time' # 0
             /\ U32Sub(now_ms', last_speech_time') >= MISSED_OPP_THRESHOLD_MS
             /\ \A i \in NewMissed :
                   NewEvents[i].silence_duration = U32Sub(now_ms', last_speech_time')]_vars

\* a MissedOpportunity reported exactly 5000 ms after a burst of 50 ms that
\* was never published, later than 5000 ms after the segment that served
C30_Witness ==
    /\ op = "loop"
    /\ current_state = "Silence"
    /\ pending_segment.duration_ms = BurstStep
    /\ ~segment_ready
    /\ segment.end_ms < pending_segment.start_ms
    /\ last_speech_time = pending_segment.end_ms
    /\ now_ms - last_speech_time = MISSED_OPP_THRESHOLD_MS
    /\ now_ms - segment.end_ms > MISSED_OPP_THRESHOLD_MS
    /\ Len(events) >= 2
    /\ events[Len(events)].type = "MissedOpportunity"
    /\ events[Len(events)].silence_duration = MISSED_OPP_THRESHOLD_MS
    /\ events[Len(events) - 1].type = "Serve"

----------------------------------------------------------------------------
(* Further properties of the session lifecycle, checked under SpecSession.  *)

(* The feedbacks a step triggers.                                          *)
NewFeedbacks == SubSeq(feedbacks', Len(feedbacks) + 1, Len(feedbacks'))

\* C31: an iteration of loop() that starts with a session active and the
\* client disconnected ends with the session inactive and capture
\* stopped, has triggered the session-end feedback and has processed no
\* frame.
C31_DisconnectStopsSession ==
    [][(op' = "loop" /\ session_active /\ ~device_connected)
       => /\ ~session_active'
          /\ ~is_running'
          /\ \E i \in 1..Len(NewFeedbacks) : NewFeedbacks[i].type = "SESSION_END"
          /\ ~got_frame']_vars

----------------------------------------------------------------------------
(* Properties of YIN step 4, checked under SpecThreshold.                   *)

(* The lags of a call's search range that have a right neighbour in it,    *)
(* are below the threshold and are a local minimum.                        *)
QualifyingLags(call) ==
    {tau \in call.tau_min..(call.tau_max - 2) :
        /\ DiffAt(call.diff, tau) < call.threshold
        /\ DiffAt(call.diff, tau) < DiffAt(call.diff, tau - 1)
        /\ DiffAt(call.diff, tau) <= DiffAt(call.diff, tau + 1)}

(* A lag of the search range holds the smallest value of the range.        *)
IsGlobalMinimum(call, tau) ==
    /\ tau \in call.tau_min..(call.tau_max - 1)
    /\ \A other \in call.tau_min..(call.tau_max - 1) :
          DiffAt(call.diff, tau) <= DiffAt(call.diff, other)

\* C32: yin_absolute_threshold returns the smallest lag of the search
\* range that is below 0.15, strictly below its left neighbour and no
\* greater than its right neighbour; when there is none it returns a lag
\* holding the smallest value of [tau_min, tau_max) if that value is below
\* 0.5, and -1 otherwise.
C32_ThresholdStep ==
    pitch_path = "threshold"
    => IF QualifyingLags(pitch_in) # {}
       THEN /\ pitch_result.tau \in QualifyingLags(pitch_in)
            /\ \A tau \in QualifyingLags(pitch_in) : pitch_result.tau <= tau
       ELSE IF \E tau \in pitch_in.tau_min..(pitch_in.tau_max - 1) :
                  DiffAt(pitch_in.diff, tau) < YIN_FALLBACK_LIMIT
       THEN IsGlobalMinimum(pitch_in, pitch_result.tau)
       ELSE pitch_result.tau = -1

\* the step returned a lag below the threshold although a later lag of the
\* range is lower still, and an earlier lag below the threshold was passed
\* over because it is no local minimum
C32_Witness ==
    /\ pitch_path = "threshold"
    /\ pitch_result.tau > pitch_in.tau_min
    /\ DiffAt(pitch_in.diff, pitch_result.tau) < YIN_THRESHOLD
    /\ ~IsGlobalMinimum(pitch_in, pitch_result.tau)
    /\ \E tau \in pitch_in.tau_min..(pitch_result.tau - 1) :
          DiffAt(pitch_in.diff, tau) < YIN_THRESHOLD

----------------------------------------------------------------------------
(* Properties of whole sessions, checked under SpecLife.                    *)

Pattern_(type, intensity) == [type |-> type, intensity |-> intensity]

(* What a step owes the wearer for a session that starts or ends in it.    *)
SessionFeedbacks ==
    IF ~session_active /\ session_active' THEN <<Pattern_("SESSION_START", 1000)>>
    ELSE IF session_active /\ ~session_active' THEN <<Pattern_("SESSION_END", 1000)>>
    ELSE <<>>

(* What a step owes the wearer for the events it hands to the transport:   *)
(* nothing for a Serve.                                                    *)
TurnFeedbacks ==
    LET answered == SelectSeq(NewEvents, LAMBDA e : e.type # "Serve")
    IN  [i \in 1..Len(answered) |->
            IF answered[i].type = "Return" THEN Pattern_("GOOD_TURN", 300)
            ELSE Pattern_("MISSED_OPP", 700)]

(* What an iteration of loop() triggers for a connection change it finds.  *)
ConnectionFeedbacks ==
    IF op' = "loop" /\ device_connected # old_device_connected
    THEN <<Pattern_(IF device_connected THEN "CONNECTED" ELSE "DISCONNECTED", 500)>>
    ELSE <<>>

\* C33 as stated: the feedbacks a step triggers are the session-start or
\* session-end pattern when a session starts or ends in it, then the
\* good-turn pattern for every Return and the missed-opportunity pattern
\* for every MissedOpportunity it emits, and nothing else.
C33_FeedbackOnlyAtEvents ==
    [][NewFeedbacks = SessionFeedbacks \o TurnFeedbacks]_vars

\* C33 amended: after setup(), which triggers the session-start pattern at
\* 0.3 and the connected pattern at 0.5, the feedbacks a step triggers are
\* the connected or disconnected pattern at 0.5 when it is an iteration of
\* loop() that finds the connection changed, then the session-start or
\* session-end pattern at 1.0 when a session starts or ends in it, then
\* the good-turn pattern at 0.3 for every Return and the
\* missed-opportunity pattern at 0.7 for every MissedOpportunity it
\* emits, and nothing else; every intensity lies in [0, 1].
C33_FeedbackPoints ==
    /\ feedbacks = <<Pattern_("SESSION_START", 300), Pattern_("CONNECTED", 500)>>
    /\ [][NewFeedbacks = ConnectionFeedbacks \o SessionFeedbacks \o TurnFeedbacks]_vars
    /\ [](\A i \in 1..Len(feedbacks) :
             feedbacks[i].intensity >= 0 /\ feedbacks[i].intensity <= 1000)

\* a session that was started before loop() saw the client, had a Serve
\* answered by a Return and was ended by a disconnect: every pattern but
\* the missed opportunity fired
C33_Witness ==
    /\ op = "loop"
    /\ Len(events) = 2
    /\ events[1].type = "Serve"
    /\ events[2].type = "Return"
    /\ feedbacks = <<Pattern_("SESSION_START", 300), Pattern_("CONNECTED", 500),
                     Pattern_("SESSION_START", 1000), Pattern_("CONNECTED", 500),
                     Pattern_("GOOD_TURN", 300), Pattern_("DISCONNECTED", 500),
                     Pattern_("SESSION_END", 1000)>>

(* An event that resolves a Serve.                                         *)
Resolves(e) == e.type = "Return" \/ e.type = "MissedOpportunity"

\* C34: every Return and every MissedOpportunity handed to the transport
\* comes right after a Serve of the same session, with no other event in
\* between: a Serve is resolved at most once, by one of the two, and
\* nothing is resolved in a session before its first Serve.
C34_ServeResolvedOnce ==
    \A i \in 1..Len(events) :
        Resolves(events[i])
        => /\ i > 1
           /\ events[i - 1].type = "Serve"
           /\ events[i - 1].session = events[i].session

\* a second session whose Serve went unanswered for 5000 ms: the
\* MissedOpportunity follows it and ends the waiting
C34_Witness ==
    /\ Len(events) = 2
    /\ events[1].type = "Serve" /\ events[1].session = 2
    /\ events[2].type = "MissedOpportunity" /\ events[2].session = 2
    /\ session_active
    /\ session_no = 2
    /\ ~waiting_for_response

----------------------------------------------------------------------------
(* Properties of the segments in a session, checked under SpecBurst.        *)

(* An iteration of loop() takes the detector out of Speech after at least  *)
(* VAD_MIN_SPEECH_MS of it: the detector publishes a segment.              *)
Publishes ==
    /\ op' = "loop"
    /\ current_state = "Speech"
    /\ current_state' # "Speech"
    /\ U32Sub(now_ms', pending_segment.start_ms) >= VAD_MIN_SPEECH_MS

(* The Serve and Return events a step hands to the transport.              *)
NewOfType(type) == {i \in 1..Len(NewEvents) : NewEvents[i].type = type}

\* C35: between iterations of loop() no segment waits in the detector's
\* slot and none was ever written over; an iteration fetches a segment
\* exactly when the detector publishes one in it, the segment fetched is
\* the one just closed, and it is processed once: a child's segment gives
\* one Serve and sets the child end time, an adult's gives no Serve and
\* ends the waiting, and an iteration that fetches none emits neither a
\* Serve nor a Return.
C35_EverySegmentReadOnce ==
    /\ [](~segment_ready /\ overwritten = 0)
    /\ [][op' = "loop" => (got_segment' <=> Publishes)]_vars
    /\ [][(op' = "loop" /\ got_segment')
          => /\ segment' = pending_segment'
             /\ segment'.start_ms = pending_segment.start_ms
             /\ segment'.end_ms = now_ms'
             /\ IF segment'.avg_energy < CHILD_ENERGY_LIMIT
                THEN /\ Cardinality(NewOfType("Serve")) = 1
                     /\ child_speech_time' = segment'.end_ms
                ELSE /\ NewOfType("Serve") = {}
                     /\ ~waiting_for_response']_vars
    /\ [][(op' = "loop" /\ ~got_segment')
          => NewOfType("Serve") \cup NewOfType("Return") = {}]_vars

\* the second segment of a session was fetched by the iteration that
\* closed it, after the first one's Serve had gone unanswered
C35_Witness ==
    /\ op = "loop"
    /\ got_segment
    /\ segment = pending_segment
    /\ segment.end_ms = now_ms
    /\ ~segment_ready
    /\ overwritten = 0
    /\ Len(events) >= 2
    /\ events[1].type = "Serve"
    /\ events[Len(events)].type = "Serve"
    /\ last_speech_time = now_ms
    /\ \E i \in 1..Len(feedbacks) : feedbacks[i].type = "MISSED_OPP"

----------------------------------------------------------------------------
(* A further property of the turn-taking logic, checked under Spec.         *)

\* C36: a segment fetched by loop() starts no earlier than the segment
\* fetched before it ended and ends no earlier than it starts; the child
\* end time on record is no later than the end of the segment fetched
\* before; so a Return carries the difference between the adult segment's
\* start and the child end time without wrap-around, and that difference
\* is not negative.
C36_SegmentsInTimeOrder ==
    [][(op' = "loop" /\ got_segment')
       => /\ segment'.start_ms >= segment.end_ms
          /\ segment'.end_ms >= segment'.start_ms
          /\ waiting_for_response => child_speech_time <= segment.end_ms
          /\ \A i \in NewOfType("Return") :
                /\ child_speech_time <= segment'.start_ms
                /\ NewEvents[i].response_latency =
                       segment'.start_ms - child_speech_time]_vars

\* a Return whose latency is the 3000 ms between the end of the child's
\* segment, fetched before, and the start of the adult's
C36_Witness ==
    /\ op = "loop"
    /\ got_segment
    /\ Len(events) >= 2
    /\ events[Len(events)].type = "Return"
    /\ events[Len(events) - 1].type = "Serve"
    /\ events[Len(events)].response_latency = segment.start_ms - child_speech_time
    /\ events[Len(events)].response_latency = RESPONSE_THRESHOLD_MS
    /\ segment.start_ms > child_speech_time

----------------------------------------------------------------------------
(* Further properties of start and stop, checked under SpecSession.         *)

\* C37: after setup(), between any two steps (iterations of loop(), start
\* and stop commands, connects and disconnects), capture is running
\* exactly when a session is active.
C37_CaptureIffSession == is_running <=> session_active

\* a session with capture running was ended by the iteration of loop()
\* that found the client gone, and capture stopped with it
C37_Witness ==
    /\ op = "loop"
    /\ session_no >= 1
    /\ ~session_active
    /\ ~is_running
    /\ ~device_connected
    /\ feedbacks[Len(feedbacks)].type = "SESSION_END"
    /\ feedbacks[Len(feedbacks) - 1].type = "DISCONNECTED"

\* C38: a start command while a session is active, and a stop command
\* while none is, change nothing: session_active, the session start time,
\* the event count, waiting_for_response, the state of the VAD and of
\* capture stay as they were and no feedback is triggered.
C38_ControlIdempotent ==
    [][(\/ op' = "start" /\ session_active
        \/ op' = "stop" /\ ~session_active)
       => /\ session_active' = session_active
          /\ session_start_time' = session_start_time
          /\ session_event_count' = session_event_count
          /\ waiting_for_response' = waiting_for_response
          /\ child_speech_time' = child_speech_time
          /\ VadState' = VadState
          /\ is_running' = is_running
          /\ session_no' = session_no
          /\ events' = events
          /\ NewFeedbacks = << >>]_vars

\* a start command arrived in a session that had sent a Serve and was
\* waiting for the answer, and the session went on
C38_Witness ==
    /\ op = "start"
    /\ session_active
    /\ session_event_count = 1
    /\ waiting_for_response
    /\ session_start_time < now_ms
    /\ feedbacks[Len(feedbacks)].type # "SESSION_START"

\* C39: no Serve, Return or MissedOpportunity event is emitted while no
\* session is active, also when a stop command is carried out between two
\* statements of an iteration of loop(): session_active holds whenever
\* send_event is called.
C39_NoEventOutsideSession ==
    \A i \in 1..Len(events) : events[i].in_session

(* The events of the latest session that ble_send_event accepted.           *)
AcceptedInSession ==
    {i \in 1..Len(events) : events[i].accepted /\ events[i].session = session_no}

\* C40: session_event_count is the number of events ble_send_event
\* accepted since the latest session started: 0 at the start, one more for
\* every accepted event and no more for an event that is dropped because
\* no client is connected; a dropped Serve sets waiting_for_response and
\* child_speech_time like one that was sent.
C40_CountsAcceptedEvents ==
    /\ [](session_event_count = Cardinality(AcceptedInSession) % UINT16_MOD)
    /\ [][op' = "start" /\ ~session_active => session_event_count' = 0]_vars
    /\ [][\A i \in (Len(events) + 1)..Len(events') :
              /\ events'[i].accepted = device_connected
              /\ events'[i].type = "Serve"
                     => /\ waiting_for_response'
                        /\ child_speech_time' = segment'.end_ms]_vars

\* a session whose client is gone has produced a Serve that was dropped:
\* the count is still 0 and the session waits for the answer
C40_Witness ==
    /\ session_active
    /\ ~device_connected
    /\ Len(events) > 0
    /\ events[Len(events)].type = "Serve"
    /\ ~events[Len(events)].accepted
    /\ events[Len(events)].session = session_no
    /\ session_event_count = 0
    /\ waiting_for_response
    /\ child_speech_time = segment.end_ms

====
